---- MODULE Spec2Model ----
(***************************************************************************)
(* Backtesting core of the trading system: BacktestRunner, BacktestEngine, *)
(* StrategyFactory and the SMA crossover strategy.                         *)
(*                                                                         *)
(* Money is held exactly, as integers counting 1/Scale of a price unit,    *)
(* with Scale = SlippageDen * CommissionDen, so that the Decimal products  *)
(* price * (1 +- slippage) and execution_price * quantity * commission     *)
(* are exact.  Closes are whole price units.                               *)
(***************************************************************************)
EXTENDS Integers, Sequences, FiniteSets, TLC

\* ---------------------------------------------------------------- bounds
MaxBars == 3          \* longest series the data provider returns
MaxPrice == 2         \* a close is 1 or MaxPrice price units
MaxStrategies == 2    \* longest list handed to compare_strategies
Capital == 20         \* initial_capital, in price units

\* ------------------------------------------------------ program constants
SlippageNum == 5
SlippageDen == 10000
CommissionNum == 1
CommissionDen == 1000
DefaultShortPeriod == 5
DefaultLongPeriod == 20
DefaultRsiPeriod == 14
DefaultOversold == 30
DefaultOverbought == 70
MacdFastPeriod == 12
MacdSlowPeriod == 26
MacdSignalPeriod == 9
BollingerPeriod == 20
BollingerStdDev == 2
MultiSmaPeriod == 20
MultiRsiPeriod == 14

Scale == SlippageDen * CommissionDen
ToleranceDen == 1000 * 1000

\* None, for a string-valued field and for an object-valued one
NULL == "None"
None == <<>>
Symbol == "SYM"

\* BacktestConfig.max_position_size values, as exact fractions <<num, den>>:
\* the default 0.1, and 0.5
DefaultMaxPositionSize == <<1, 10>>
MaxPositionSizes == { DefaultMaxPositionSize, <<1, 2>> }

\* SignalType
SignalTypes == {"BUY", "SELL", "HOLD", "NO_SIGNAL"}

\* the fields of the BacktestPosition dataclass
BacktestPositionFields ==
    {"symbol", "quantity", "entry_price", "entry_date",
     "current_price", "market_value", "unrealized_pnl"}

\* the registry of StrategyFactory.create_strategy
Registry == {"sma_crossover", "rsi", "macd", "multi_indicator"}

\* ---------------------------------------------------------------- helpers
Min(a, b) == IF a < b THEN a ELSE b
Abs(a) == IF a < 0 THEN 0 - a ELSE a
Last(s) == s[Len(s)]

RECURSIVE SumSeq(_)
SumSeq(s) == IF s = <<>> THEN 0 ELSE Head(s) + SumSeq(Tail(s))

RECURSIVE SumOver(_, _)
SumOver(S, f) ==
    IF S = {} THEN 0
    ELSE LET x == CHOOSE y \in S : TRUE IN f[x] + SumOver(S \ {x}, f)

\* all sequences over S of length 0..n
SeqsUpTo(S, n) == UNION { [1..m -> S] : m \in 0..n }

\* a provider series: bars with increasing timestamps and the given closes
Bars(closes) ==
    [i \in 1..Len(closes) |-> [timestamp |-> i, close |-> closes[i] * Scale]]

\* ------------------------------------------------------------------ floats
\* The indicator library computes on Python floats: binary floating point,
\* every operation rounded to nearest, ties to even.  A float is kept as
\* [m, e], standing for m * 2^e, with a significand m of MantissaBits bits
\* (zero is [0, 0]).  Python's significand has 53 bits; the model's is 13 bits
\* wide, which is congruent to 53 modulo the length 4 of the binary period of
\* 1/10, so that sums and quotients of tenths round the way they do in Python.
MantissaBits == 13

\* the number of binary digits of a >= 0, four digits at a time
RECURSIVE BitLen(_)
BitLen(a) ==
    IF a >= 16 THEN 4 + BitLen(a \div 16)
    ELSE IF a >= 8 THEN 4
    ELSE IF a >= 4 THEN 3
    ELSE IF a >= 2 THEN 2
    ELSE a

FZero == [m |-> 0, e |-> 0]

\* the float nearest to m * 2^e; sticky says that the exact value lies
\* strictly between |m| and |m| + 1 (in units of 2^e)
Round(m, e, sticky) ==
    LET a == Abs(m)
        sgn == IF m < 0 THEN 0 - 1 ELSE 1
        L == BitLen(a)
    IN IF a = 0 THEN FZero
       ELSE IF L <= MantissaBits
       THEN [m |-> m * 2^(MantissaBits - L), e |-> e - (MantissaBits - L)]
       ELSE LET s == L - MantissaBits
                q == a \div 2^s
                r == a % 2^s
                half == 2^(s - 1)
                up == r > half \/ (r = half /\ (sticky \/ q % 2 = 1))
                q1 == IF up THEN q + 1 ELSE q
            IN IF q1 = 2^MantissaBits
               THEN [m |-> sgn * 2^(MantissaBits - 1), e |-> e + s + 1]
               ELSE [m |-> sgn * q1, e |-> e + s]

\* the float nearest to (q + r / den) * 2^e, by long division
RECURSIVE DivBits(_, _, _, _)
DivBits(q, r, den, e) ==
    IF r = 0 THEN Round(q, e, FALSE)
    ELSE IF BitLen(q) >= MantissaBits + 2 THEN Round(q, e, TRUE)
    ELSE DivBits((2 * q) + ((2 * r) \div den), (2 * r) % den, den, e - 1)

\* float(n) of an int, and the float nearest to the fraction n / den
FromInt(n) == Round(n, 0, FALSE)
FromRatio(n, den) == DivBits(n \div den, n % den, den, 0)

FNeg(a) == [m |-> 0 - a.m, e |-> a.e]
FAbs(a) == IF a.m < 0 THEN FNeg(a) ELSE a

\* a + b: the significands are aligned when the exponents are close enough
\* for the smaller operand to matter
FAdd(a, b) ==
    IF a.m = 0 THEN b
    ELSE IF b.m = 0 THEN a
    ELSE LET hi == IF a.e >= b.e THEN a ELSE b
             lo == IF a.e >= b.e THEN b ELSE a
             d == hi.e - lo.e
         IN IF d > MantissaBits + 3 THEN hi
            ELSE Round((hi.m * 2^d) + lo.m, lo.e, FALSE)

FSub(a, b) == FAdd(a, FNeg(b))
FMul(a, b) == Round(a.m * b.m, a.e + b.e, FALSE)

\* a / b, for b # 0: the quotient of the significands is taken to
\* MantissaBits + 2 binary places, the remainder is the sticky bit
FDiv(a, b) ==
    LET sgn == IF (a.m < 0) # (b.m < 0) THEN 0 - 1 ELSE 1
        sh == MantissaBits + 2
        n == Abs(a.m) * 2^sh
        f == Round(n \div Abs(b.m), a.e - b.e - sh, n % Abs(b.m) # 0)
    IN [m |-> sgn * f.m, e |-> f.e]

FLt(a, b) == FSub(a, b).m < 0
FLe(a, b) == ~FLt(b, a)
FMax(a, b) == IF FLt(a, b) THEN b ELSE a

\* sum(xs): left to right from 0
RECURSIVE FSum(_)
FSum(xs) == IF xs = <<>> THEN FZero
            ELSE FAdd(FSum(SubSeq(xs, 1, Len(xs) - 1)), xs[Len(xs)])

\* ------------------------------------------------------------- indicators
\* sorted(ohlcv_data, key=timestamp): stable insertion sort
RECURSIVE Insert(_, _)
Insert(b, s) ==
    IF s = <<>> THEN <<b>>
    ELSE IF b.timestamp < Head(s).timestamp THEN <<b>> \o s
    ELSE <<Head(s)>> \o Insert(b, Tail(s))

RECURSIVE SortByTimestamp(_)
SortByTimestamp(s) ==
    IF s = <<>> THEN <<>>
    ELSE Insert(s[Len(s)], SortByTimestamp(SubSeq(s, 1, Len(s) - 1)))

\* float(ohlcv.close) of a Decimal close, held in 1/Scale
FloatOfDecimal(d) == FromRatio(d, Scale)

\* IndicatorCalculator.__init__
IndicatorCalculator(ohlcv_data) ==
    LET sorted == SortByTimestamp(ohlcv_data) IN
    [ close_prices |-> [i \in 1..Len(sorted) |-> FloatOfDecimal(sorted[i].close)],
      timestamps   |-> [i \in 1..Len(sorted) |-> sorted[i].timestamp] ]

\* a moving average whose loop stops one window early
sma_without_last_window(prices, period) ==
    IF Len(prices) < period THEN <<>>
    ELSE [i \in 1..(Len(prices) - period) |->
             FDiv(FSum(SubSeq(prices, i, i + period - 1)), FromInt(period))]

\* TechnicalIndicators.simple_moving_average
simple_moving_average(prices, period) ==
    IF Len(prices) < period THEN <<>>
    ELSE [i \in 1..(Len(prices) - period + 1) |->
             FDiv(FSum(SubSeq(prices, i, i + period - 1)), FromInt(period))]

\* exponential_moving_average: the values after the loop over prices[period:]
\* has taken the prices up to the n-th
RECURSIVE EmaLoop(_, _, _, _)
EmaLoop(prices, period, multiplier, n) ==
    IF n <= period
    THEN <<FDiv(FSum(SubSeq(prices, 1, period)), FromInt(period))>>
    ELSE LET ema == EmaLoop(prices, period, multiplier, n - 1)
             ema_val == FAdd(FMul(prices[n], multiplier),
                             FMul(Last(ema), FSub(FromInt(1), multiplier)))
         IN Append(ema, ema_val)

\* TechnicalIndicators.exponential_moving_average
exponential_moving_average(prices, period) ==
    IF Len(prices) < period THEN <<>>
    ELSE EmaLoop(prices, period, FDiv(FromInt(2), FromInt(period + 1)),
                 Len(prices))

\* an RSI value that leaves out the subtraction from 100
RsiValueOfLosses(avg_gain, avg_loss) ==
    IF avg_loss.m = 0 THEN FromInt(100)
    ELSE FDiv(FromInt(100), FAdd(FromInt(1), FDiv(avg_gain, avg_loss)))

\* one RSI value from the average gain and the average loss
RsiValue(avg_gain, avg_loss) ==
    IF avg_loss.m = 0 THEN FromInt(100)
    ELSE LET rs == FDiv(avg_gain, avg_loss)
         IN FSub(FromInt(100), FDiv(FromInt(100), FAdd(FromInt(1), rs)))

\* relative_strength_index: the values and the running averages after the
\* loop over gains[period:], losses[period:] has taken the n-th change
RECURSIVE RsiLoop(_, _, _, _)
RsiLoop(gains, losses, period, n) ==
    LET Appended(rsi_values, avg_gain, avg_loss) ==
          [rsi_values |-> Append(rsi_values, RsiValue(avg_gain, avg_loss)),
           avg_gain |-> avg_gain, avg_loss |-> avg_loss]
        Initial(changes) == FDiv(FSum(SubSeq(changes, 1, period)), FromInt(period))
        Smoothed(avg, change) ==
          FDiv(FAdd(FMul(avg, FromInt(period - 1)), change), FromInt(period))
        Subsequent(prev) ==
          Appended(prev.rsi_values, Smoothed(prev.avg_gain, gains[n]),
                   Smoothed(prev.avg_loss, losses[n]))
    IN IF n <= period
       THEN Appended(<<>>, Initial(gains), Initial(losses))
       ELSE Subsequent(RsiLoop(gains, losses, period, n - 1))

\* TechnicalIndicators.relative_strength_index
relative_strength_index(prices, period) ==
    IF Len(prices) < period + 1 THEN <<>>
    ELSE LET change == [i \in 1..(Len(prices) - 1) |->
                           FSub(prices[i + 1], prices[i])]
             gains == [i \in DOMAIN change |-> FMax(change[i], FZero)]
             losses == [i \in DOMAIN change |-> FMax(FNeg(change[i]), FZero)]
         IN RsiLoop(gains, losses, period, Len(gains)).rsi_values

\* TechnicalIndicators.macd
macd(prices, fast_period, slow_period, signal_period) ==
    IF Len(prices) < slow_period
    THEN [macd |-> <<>>, signal |-> <<>>, histogram |-> <<>>]
    ELSE LET start_idx == slow_period - fast_period
             signal_start_idx == signal_period - 1
             Histogram(macd_line, signal_line) ==
               [macd |-> macd_line, signal |-> signal_line,
                histogram |-> [i \in 1..Len(signal_line) |->
                                  FSub(macd_line[i + signal_start_idx],
                                       signal_line[i])]]
             SignalLine(macd_line) ==
               Histogram(macd_line,
                         exponential_moving_average(macd_line, signal_period))
             MacdLine(fast_ema, slow_ema) ==
               SignalLine([i \in 1..Len(slow_ema) |->
                              FSub(fast_ema[i + start_idx], slow_ema[i])])
         IN MacdLine(exponential_moving_average(prices, fast_period),
                     exponential_moving_average(prices, slow_period))

\* the largest r in lo..hi-1 with r * r <= n, given lo * lo <= n < hi * hi
RECURSIVE ISqrt(_, _, _)
ISqrt(lo, hi, n) ==
    IF hi - lo <= 1 THEN lo
    ELSE LET mid == (lo + hi) \div 2
         IN IF mid * mid <= n THEN ISqrt(mid, hi, n) ELSE ISqrt(lo, mid, n)

\* sqrt(a), for a >= 0
FSqrt(a) ==
    IF a.m = 0 THEN FZero
    ELSE LET sh == IF a.e % 2 = 0 THEN 16 ELSE 17
             n == a.m * 2^sh
             r == ISqrt(2^14, 2^15, n)
         IN Round(r, (a.e - sh) \div 2, r * r # n)

\* np.std(window): the population standard deviation; the sums are taken
\* left to right
Std(window) ==
    LET n == FromInt(Len(window))
        Square(d) == FMul(d, d)
        Deviation(mean) ==
          FSqrt(FDiv(FSum([i \in DOMAIN window |->
                              Square(FSub(window[i], mean))]), n))
    IN Deviation(FDiv(FSum(window), n))

\* the body of the loop of bollinger_bands: the band of one window, with
\* std_dev a whole number
BollingerBand(window, std_dev) ==
    LET Band(sma, width) ==
          [upper |-> FAdd(sma, width), middle |-> sma,
           lower |-> FSub(sma, width)]
    IN Band(FDiv(FSum(window), FromInt(Len(window))),
            FMul(FromInt(std_dev), Std(window)))

\* TechnicalIndicators.bollinger_bands
bollinger_bands(prices, period, std_dev) ==
    IF Len(prices) < period
    THEN [upper |-> <<>>, middle |-> <<>>, lower |-> <<>>]
    ELSE LET bands == [i \in 1..(Len(prices) - period + 1) |->
                          BollingerBand(SubSeq(prices, i, i + period - 1),
                                        std_dev)]
         IN [upper  |-> [i \in DOMAIN bands |-> bands[i].upper],
             middle |-> [i \in DOMAIN bands |-> bands[i].middle],
             lower  |-> [i \in DOMAIN bands |-> bands[i].lower]]

FMin(a, b) == IF FLt(b, a) THEN b ELSE a

\* max(window) and min(window) of a non-empty list
RECURSIVE MaxOf(_)
MaxOf(window) ==
    IF Len(window) = 1 THEN window[1]
    ELSE FMax(MaxOf(SubSeq(window, 1, Len(window) - 1)), window[Len(window)])

RECURSIVE MinOf(_)
MinOf(window) ==
    IF Len(window) = 1 THEN window[1]
    ELSE FMin(MinOf(SubSeq(window, 1, Len(window) - 1)), window[Len(window)])

\* TechnicalIndicators.stochastic_oscillator
stochastic_oscillator(high_prices, low_prices, close_prices, k_period, d_period) ==
    IF Len(close_prices) < k_period THEN [k |-> <<>>, d |-> <<>>]
    ELSE LET K(highest_high, lowest_low, current_close) ==
               IF FSub(highest_high, lowest_low).m = 0 THEN FromInt(50)
               ELSE FMul(FromInt(100),
                         FDiv(FSub(current_close, lowest_low),
                              FSub(highest_high, lowest_low)))
             D(k_values) ==
               [k |-> k_values, d |-> simple_moving_average(k_values, d_period)]
         IN D([i \in 1..(Len(close_prices) - k_period + 1) |->
                  K(MaxOf(SubSeq(high_prices, i, i + k_period - 1)),
                    MinOf(SubSeq(low_prices, i, i + k_period - 1)),
                    close_prices[i + k_period - 1])])

\* TechnicalIndicators.average_true_range
average_true_range(high_prices, low_prices, close_prices, period) ==
    IF Len(close_prices) < period + 1 THEN <<>>
    ELSE LET TrueRange(tr1, tr2, tr3) == FMax(FMax(tr1, tr2), tr3)
         IN exponential_moving_average(
                [i \in 1..(Len(close_prices) - 1) |->
                    TrueRange(FSub(high_prices[i + 1], low_prices[i + 1]),
                              FAbs(FSub(high_prices[i + 1], close_prices[i])),
                              FAbs(FSub(low_prices[i + 1], close_prices[i])))],
                period)

\* on_balance_volume: obv after the loop over range(1, len(close_prices))
\* has taken the n-th bar; the list is seeded with 0 before the loop
RECURSIVE ObvLoop(_, _, _)
ObvLoop(close_prices, volumes, n) ==
    LET Taken(obv) ==
          IF FLt(close_prices[n - 1], close_prices[n])
          THEN Append(obv, Last(obv) + volumes[n])
          ELSE IF FLt(close_prices[n], close_prices[n - 1])
          THEN Append(obv, Last(obv) - volumes[n])
          ELSE Append(obv, Last(obv))
    IN IF n <= 1 THEN <<0>>
       ELSE Taken(ObvLoop(close_prices, volumes, n - 1))

\* TechnicalIndicators.on_balance_volume
on_balance_volume(close_prices, volumes) ==
    IF Len(close_prices) # Len(volumes)
    THEN [raised |-> "ValueError", obv |-> <<>>]
    ELSE [raised |-> NULL,
          obv |-> ObvLoop(close_prices, volumes, Len(close_prices))]

\* values[-1] if values else None
LastOrNone(values) == IF values = <<>> THEN None ELSE Last(values)

\* IndicatorCalculator.calculate_*: self.timestamps[-1] raises IndexError on
\* a calculator built from no bars; value holds the latest value or None
calculate_sma(calc, period) ==
    LET IndicatorData(values) ==
          IF calc.timestamps = <<>>
          THEN [raised |-> "IndexError", values |-> <<>>, value |-> None]
          ELSE [raised |-> NULL, values |-> values, value |-> LastOrNone(values)]
    IN IndicatorData(simple_moving_average(calc.close_prices, period))

calculate_rsi(calc, period) ==
    LET IndicatorData(values) ==
          IF calc.timestamps = <<>>
          THEN [raised |-> "IndexError", values |-> <<>>, value |-> None]
          ELSE [raised |-> NULL, values |-> values, value |-> LastOrNone(values)]
    IN IndicatorData(relative_strength_index(calc.close_prices, period))

calculate_macd(calc) ==
    LET IndicatorData(macd_data) ==
          IF calc.timestamps = <<>>
          THEN [raised |-> "IndexError", macd_line |-> <<>>,
                signal_line |-> <<>>, macd |-> None, signal |-> None]
          ELSE [raised |-> NULL, macd_line |-> macd_data.macd,
                signal_line |-> macd_data.signal,
                macd |-> LastOrNone(macd_data.macd),
                signal |-> LastOrNone(macd_data.signal)]
    IN IndicatorData(macd(calc.close_prices, MacdFastPeriod, MacdSlowPeriod,
                          MacdSignalPeriod))

\* value takes the last entry of each list of bollinger_bands, which is the
\* band of the last window
calculate_bollinger_bands(calc) ==
    LET prices == calc.close_prices
        IndicatorData(last) ==
          [raised |-> NULL, upper |-> last.upper, lower |-> last.lower]
    IN IF calc.timestamps = <<>>
       THEN [raised |-> "IndexError", upper |-> None, lower |-> None]
       ELSE IF Len(prices) < BollingerPeriod
       THEN [raised |-> NULL, upper |-> None, lower |-> None]
       ELSE IndicatorData(BollingerBand(
                SubSeq(prices, Len(prices) - BollingerPeriod + 1, Len(prices)),
                BollingerStdDev))

\* -------------------------------------------------------------- strategies
MakeSignal(type, bar, confidence) ==
    [symbol |-> Symbol, signal_type |-> type,
     timestamp |-> bar.timestamp, price |-> bar.close,
     confidence |-> confidence]

\* a return statement without the test of the type: a Signal at every step
SignalAlways(type, current_data, confidence) ==
    [raised |-> NULL,
     signals |-> <<MakeSignal(type, Last(current_data), confidence)>>]

\* the return statement shared by the strategies: one Signal unless the type
\* is NO_SIGNAL
SignalOrNothing(type, current_data, confidence) ==
    IF type # "NO_SIGNAL"
    THEN [raised |-> NULL,
          signals |-> <<MakeSignal(type, Last(current_data), confidence)>>]
    ELSE [raised |-> NULL, signals |-> <<>>]

\* Signal.confidence when the constructor is given none
DefaultConfidence == FromInt(1)
\* the fixed confidence of the SMA and of the MACD crossover signals
SmaConfidence == FromRatio(7, 10)
MacdConfidence == FromRatio(8, 10)

\* a confidence that keeps the sign of the distance from 50
RsiConfidenceSigned(current_rsi) ==
    FDiv(FSub(FromInt(50), current_rsi), FromInt(50))

\* abs(50 - current_rsi) / 50
RsiConfidence(current_rsi) ==
    FDiv(FAbs(FSub(FromInt(50), current_rsi)), FromInt(50))

Nothing == [raised |-> NULL, signals |-> <<>>]
Raise(type) == [raised |-> type, signals |-> <<>>]

\* a crossover test that wants the short average strictly on the other
\* side at the previous step
SmaCrossoverStrict(prev_short_sma, prev_long_sma, short_sma, long_sma) ==
    IF FLt(prev_short_sma, prev_long_sma) /\ FLt(long_sma, short_sma)
    THEN "BUY"
    ELSE IF FLt(prev_long_sma, prev_short_sma) /\ FLt(short_sma, long_sma)
    THEN "SELL"
    ELSE "NO_SIGNAL"

\* the crossover test of SimpleMovingAverageStrategy.generate_signals
SmaCrossover(prev_short_sma, prev_long_sma, short_sma, long_sma) ==
    IF FLe(prev_short_sma, prev_long_sma) /\ FLt(long_sma, short_sma)
    THEN "BUY"
    ELSE IF FLe(prev_long_sma, prev_short_sma) /\ FLt(short_sma, long_sma)
    THEN "SELL"
    ELSE "NO_SIGNAL"

\* the crossover test of MACDStrategy.generate_signals
MacdCrossover(prev_macd, prev_signal, current_macd, current_signal) ==
    IF FLe(prev_macd, prev_signal) /\ FLt(current_signal, current_macd)
    THEN "BUY"
    ELSE IF FLe(prev_signal, prev_macd) /\ FLt(current_macd, current_signal)
    THEN "SELL"
    ELSE "NO_SIGNAL"

\* SimpleMovingAverageStrategy.generate_signals
SmaGenerateSignals(calc, parameters, current_data) ==
    IF calc = None THEN Nothing
    ELSE
    LET Crossover(short, long) ==
          LET sv    == short.values
              lv    == long.values
              type  ==
                IF Len(sv) >= 2 /\ Len(lv) >= 2
                THEN SmaCrossover(sv[Len(sv) - 1], lv[Len(lv) - 1],
                                  Last(sv), Last(lv))
                ELSE "NO_SIGNAL"
          IN IF short.raised # NULL THEN Raise(short.raised)
             ELSE IF long.raised # NULL THEN Raise(long.raised)
             ELSE IF sv = <<>> \/ lv = <<>> THEN Nothing
             ELSE SignalOrNothing(type, current_data, SmaConfidence)
    IN Crossover(calculate_sma(calc, parameters.short_period),
                 calculate_sma(calc, parameters.long_period))

\* RSIStrategy.generate_signals
RsiGenerateSignals(calc, parameters, current_data) ==
    IF calc = None THEN Nothing
    ELSE
    LET Levels(rsi) ==
          LET current_rsi == Last(rsi.values)
              type ==
                IF FLe(current_rsi, FromInt(parameters.oversold)) THEN "BUY"
                ELSE IF FLe(FromInt(parameters.overbought), current_rsi)
                THEN "SELL"
                ELSE "NO_SIGNAL"
          IN IF rsi.raised # NULL THEN Raise(rsi.raised)
             ELSE IF rsi.values = <<>> THEN Nothing
             ELSE SignalOrNothing(type, current_data,
                                  RsiConfidence(current_rsi))
    IN Levels(calculate_rsi(calc, parameters.rsi_period))

\* MACDStrategy.generate_signals
MacdGenerateSignals(calc, current_data) ==
    IF calc = None THEN Nothing
    ELSE
    LET Crossover(ind) ==
          LET ml == ind.macd_line
              sl == ind.signal_line
              type == MacdCrossover(ml[Len(ml) - 1], sl[Len(sl) - 1],
                                    Last(ml), Last(sl))
          IN IF ind.raised # NULL THEN Raise(ind.raised)
             ELSE IF Len(ml) < 2 \/ Len(sl) < 2 THEN Nothing
             ELSE SignalOrNothing(type, current_data, MacdConfidence)
    IN Crossover(calculate_macd(calc))

\* truthiness of an indicator value in all([...]): None and 0.0 are false
Truthy(x) == x # None /\ x.m # 0

\* n half votes as a float
Halves(n) == FromRatio(n, 2)

\* MultiIndicatorStrategy.generate_signals; the votes are counted in halves
MultiGenerateSignals(calc, current_data) ==
    IF calc = None THEN Nothing
    ELSE
    LET Ratios(buy_signals, sell_signals, total_signals) ==
          LET Decide(threshold, buy_ratio, sell_ratio) ==
                IF FLe(threshold, buy_ratio)
                THEN [signal_type |-> "BUY", confidence |-> buy_ratio]
                ELSE IF FLe(threshold, sell_ratio)
                THEN [signal_type |-> "SELL", confidence |-> sell_ratio]
                ELSE [signal_type |-> "NO_SIGNAL", confidence |-> FZero]
          IN Decide(FromRatio(6, 10),
                    FDiv(Halves(buy_signals), Halves(total_signals)),
                    FDiv(Halves(sell_signals), Halves(total_signals)))
        Votes(rsi_buy, rsi_sell, macd_buy, bb_buy, bb_sell, sma_buy) ==
          Ratios(rsi_buy + macd_buy + bb_buy + sma_buy,
                 rsi_sell + (2 - macd_buy) + bb_sell + (1 - sma_buy),
                 2 + 2 + 2 + 1)
        Score(sma_20, rsi, macd_value, signal_line, bb_upper, bb_lower,
              current_price) ==
          Votes(IF FLe(rsi, FromInt(30)) THEN 2 ELSE 0,
                IF ~FLe(rsi, FromInt(30)) /\ FLe(FromInt(70), rsi)
                THEN 2 ELSE 0,
                IF FLt(signal_line, macd_value) THEN 2 ELSE 0,
                IF FLe(current_price, bb_lower) THEN 2 ELSE 0,
                IF ~FLe(current_price, bb_lower) /\ FLe(bb_upper, current_price)
                THEN 2 ELSE 0,
                IF FLt(sma_20, current_price) THEN 1 ELSE 0)
        Decided(decision) ==
          SignalOrNothing(decision.signal_type, current_data,
                          decision.confidence)
        Indicators(sma_indicator, rsi_indicator, macd_indicator, bb_indicator) ==
          LET sma_20 == sma_indicator.value
              rsi == rsi_indicator.value
              macd_value == macd_indicator.macd
              signal_line == macd_indicator.signal
              bb_upper == bb_indicator.upper
              bb_lower == bb_indicator.lower
          IN IF sma_indicator.raised # NULL THEN Raise(sma_indicator.raised)
             ELSE IF rsi_indicator.raised # NULL THEN Raise(rsi_indicator.raised)
             ELSE IF macd_indicator.raised # NULL
             THEN Raise(macd_indicator.raised)
             ELSE IF bb_indicator.raised # NULL THEN Raise(bb_indicator.raised)
             ELSE IF ~(Truthy(sma_20) /\ Truthy(rsi) /\ Truthy(macd_value)
                       /\ Truthy(signal_line) /\ Truthy(bb_upper)
                       /\ Truthy(bb_lower))
             THEN Nothing
             ELSE Decided(
                      Score(sma_20, rsi, macd_value, signal_line, bb_upper,
                            bb_lower, FloatOfDecimal(Last(current_data).close)))
    IN Indicators(calculate_sma(calc, MultiSmaPeriod),
                  calculate_rsi(calc, MultiRsiPeriod),
                  calculate_macd(calc),
                  calculate_bollinger_bands(calc))

\* A TradingStrategy subclass supplied by the caller of run_backtest: its
\* generate_signals returns, for the prefix of n bars, the signals that its
\* rule (here the table scr, one entry per bar) yields.
CustomGenerateSignals(scr, current_data) ==
    LET n == Len(current_data) IN
    [raised |-> NULL,
     signals |-> [j \in 1..Len(scr[n]) |->
                     MakeSignal(scr[n][j], Last(current_data),
                                DefaultConfidence)]]

\* strategy.generate_signals(current_data), dispatched on the class
GenerateSignals(strat, calc, scr, current_data) ==
    IF strat.kind = "sma_crossover"
    THEN SmaGenerateSignals(calc, strat.parameters, current_data)
    ELSE IF strat.kind = "rsi"
    THEN RsiGenerateSignals(calc, strat.parameters, current_data)
    ELSE IF strat.kind = "macd"
    THEN MacdGenerateSignals(calc, current_data)
    ELSE IF strat.kind = "multi_indicator"
    THEN MultiGenerateSignals(calc, current_data)
    ELSE CustomGenerateSignals(scr, current_data)

\* a factory that falls back to the SMA crossover class for an unknown name
create_strategy_with_fallback(strategy_name, parameters) ==
    [raised |-> NULL,
     strategy |-> [kind |-> "sma_crossover", name |-> strategy_name,
                   parameters |-> parameters]]

\* StrategyFactory.create_strategy
create_strategy(strategy_name, parameters) ==
    IF strategy_name \notin Registry
    THEN [raised |-> "ValueError", strategy |-> None]
    ELSE [raised |-> NULL,
          strategy |-> [kind |-> strategy_name, name |-> strategy_name,
                        parameters |-> parameters]]

\* ------------------------------------------------------------------ engine
\* BacktestEngine.__init__: the portfolio of a fresh engine
InitialCapital == Capital * Scale

\* has BacktestPosition an attribute of this name?
HasAttribute(name) == name \in BacktestPositionFields

\* a buy branch that debits the cash without comparing it to the cost
InsufficientCashUnchecked(cost, available) == FALSE

\* a rejection that lets a buy cost up to twice the cash
InsufficientCashOnMargin(cost, available) == cost > 2 * available

\* the condition of the insufficient-cash rejection
InsufficientCash(cost, available) == cost > available

\* a run that does not look at the series it was given
NoDataUnchecked(data) == FALSE

\* the condition of the hard failure on an empty series
NoData(data) == data = <<>>

\* BacktestEngine._update_portfolio_values: the positions marked to the close
MarkedPositions(pos, close) ==
    [s \in DOMAIN pos |->
        [pos[s] EXCEPT
            !.current_price = close,
            !.market_value = pos[s].quantity * close,
            !.unrealized_pnl = (pos[s].quantity * close)
                               - (pos[s].quantity * pos[s].entry_price)]]

\* ... and the total value it stores in the portfolio
MarkedTotalValue(csh, pos, close) ==
    csh + SumOver(DOMAIN pos, [s \in DOMAIN pos |-> pos[s].quantity * close])

\* a sizing that rounds the quotient up
SizedQuantityRoundedUp(tv, mps, price) ==
    ((tv * mps[1]) + (mps[2] * price) - 1) \div (mps[2] * price)

\* position sizing: (total_value * max_position_size / price), ROUND_DOWN
SizedQuantity(tv, mps, price) == (tv * mps[1]) \div (mps[2] * price)

\* a fill at the price of the signal, without slippage
SignalPrice(type, price) == price

\* execution price after slippage: signal.price * (1 +- slippage); a price is
\* a multiple of SlippageDen units, so the quotient is taken first and exact
ExecutionPrice(type, price) ==
    IF type = "SELL"
    THEN (price \div SlippageDen) * (SlippageDen - SlippageNum)
    ELSE (price \div SlippageDen) * (SlippageDen + SlippageNum)

\* commission = execution_price * quantity * commission_per_trade
Commission(execution_price, quantity) ==
    (execution_price * quantity * CommissionNum) \div CommissionDen

\* the unchanged outcome of a signal that is ignored or rejected
NoFill(st) ==
    [cash |-> st.cash, positions |-> st.positions, trades |-> st.trades,
     log |-> st.log, raised |-> NULL]

\* an entry price that forgets the cost of the units already held
LatestEntryPrice(position, quantity, execution_price) == execution_price

\* the entry price of a position after a further buy: the quotient
\* total_cost / total_quantity, kept to 1/Scale
MergedEntryPrice(position, quantity, execution_price) ==
    LET total_quantity == position.quantity + quantity
        total_cost == (position.quantity * position.entry_price)
                      + (quantity * execution_price)
    IN total_cost \div total_quantity

\* BacktestEngine._execute_signal, buy branch.
ExecuteBuy(signal, timestamp, quantity, execution_price, commission, st) ==
    LET cost == (execution_price * quantity) + commission
        sym  == signal.symbol
        newpos ==
          IF sym \in DOMAIN st.positions
          THEN LET position == st.positions[sym]
                   total_quantity == position.quantity + quantity
               IN [position EXCEPT
                      !.entry_price = MergedEntryPrice(position, quantity,
                                                       execution_price),
                      !.quantity = total_quantity]
          ELSE [symbol |-> sym, quantity |-> quantity,
                entry_price |-> execution_price, entry_date |-> timestamp,
                current_price |-> execution_price, market_value |-> 0,
                unrealized_pnl |-> 0]
        trade == [symbol |-> sym, side |-> "BUY", quantity |-> quantity,
                  price |-> execution_price, timestamp |-> timestamp,
                  commission |-> commission, pnl |-> None]
    IN IF InsufficientCash(cost, st.cash)
       THEN [NoFill(st) EXCEPT !.log = Append(st.log, "warning")]
       ELSE [cash |-> st.cash - cost,
             positions |-> [s \in (DOMAIN st.positions) \cup {sym} |->
                              IF s = sym THEN newpos ELSE st.positions[s]],
             trades |-> Append(st.trades, trade),
             log |-> st.log, raised |-> NULL]

\* BacktestEngine._execute_signal, sell branch.  The cash is credited, then
\* position.realized_pnl is read: BacktestPosition has no such attribute, the
\* read raises AttributeError and the rest of the branch is not run.
ExecuteSell(signal, timestamp, quantity, execution_price, commission, st) ==
    LET sym == signal.symbol IN
    IF sym \notin DOMAIN st.positions THEN NoFill(st)
    ELSE
    LET position == st.positions[sym]
        sell_quantity == Min(quantity, position.quantity)
        proceeds == (execution_price * sell_quantity) - commission
        cost_basis == sell_quantity * position.entry_price
        realized_pnl == proceeds - cost_basis - commission
        left == position.quantity - sell_quantity
        trade == [symbol |-> sym, side |-> "SELL", quantity |-> sell_quantity,
                  price |-> execution_price, timestamp |-> timestamp,
                  commission |-> commission, pnl |-> <<realized_pnl>>]
    IN IF ~HasAttribute("realized_pnl")
       THEN [cash |-> st.cash + proceeds, positions |-> st.positions,
             trades |-> st.trades, log |-> st.log,
             raised |-> "AttributeError"]
       ELSE [cash |-> st.cash + proceeds,
             positions |->
               IF left <= 0
               THEN [s \in (DOMAIN st.positions) \ {sym} |-> st.positions[s]]
               ELSE [st.positions EXCEPT ![sym].quantity = left],
             trades |-> Append(st.trades, trade),
             log |-> st.log, raised |-> NULL]

\* a test of the type that lets HOLD through to the buy/sell branches
IgnoredNoSignalOnly(signal_type) == signal_type = "NO_SIGNAL"

\* signal.signal_type not in [SignalType.BUY, SignalType.SELL]
Ignored(signal_type) == signal_type \notin {"BUY", "SELL"}

\* BacktestEngine._execute_signal
execute_signal(signal, timestamp, mps, st) ==
    IF Ignored(signal.signal_type) THEN NoFill(st)
    ELSE
    LET quantity == SizedQuantity(st.total_value, mps, signal.price)
        execution_price == ExecutionPrice(signal.signal_type, signal.price)
        commission == Commission(execution_price, quantity)
    IN IF quantity <= 0 THEN NoFill(st)
       ELSE IF signal.signal_type = "BUY"
       THEN ExecuteBuy(signal, timestamp, quantity, execution_price, commission, st)
       ELSE ExecuteSell(signal, timestamp, quantity, execution_price, commission, st)

\* float(Decimal): the nearest double; at the resolution of the model
\* (1/Scale, magnitudes below 2^31) the rounding is below one unit
ToFloat(d) == d

\* BacktestEngine._record_portfolio_state: the snapshot
Snapshot(timestamp, tv, csh, pos) ==
    [timestamp |-> timestamp,
     total_value |-> ToFloat(tv),
     cash |-> ToFloat(csh),
     positions |-> [s \in DOMAIN pos |->
                      [quantity |-> ToFloat(pos[s].quantity),
                       market_value |-> ToFloat(pos[s].market_value),
                       unrealized_pnl |-> ToFloat(pos[s].unrealized_pnl)]]]

\* max(max_drawdown, drawdown) of line 272, and a loop that keeps the
\* drawdown of the last snapshot instead
LastDrawdown(max_drawdown, drawdown) == drawdown
LargerDrawdown(max_drawdown, drawdown) == FMax(max_drawdown, drawdown)

\* _calculate_results, lines 264-272: the running peak and the maximum
\* drawdown after the loop has taken the first n snapshots
RECURSIVE DrawdownLoop(_, _)
DrawdownLoop(history, n) ==
    IF n = 0
    THEN [peak |-> FloatOfDecimal(InitialCapital), max_drawdown |-> FZero]
    ELSE LET prev == DrawdownLoop(history, n - 1)
             current_value == FloatOfDecimal(history[n].total_value)
             peak == IF FLt(prev.peak, current_value) THEN current_value
                     ELSE prev.peak
             drawdown == FDiv(FSub(peak, current_value), peak)
         IN [peak |-> peak,
             max_drawdown |-> LargerDrawdown(prev.max_drawdown, drawdown)]

\* _calculate_results, lines 246-254: prev_value and daily_returns after
\* the loop has taken the first n snapshots
RECURSIVE DailyReturnsLoop(_, _)
DailyReturnsLoop(history, n) ==
    LET Taken(prev, current_value) ==
          [prev_value |-> current_value,
           daily_returns |->
               Append(prev.daily_returns,
                      FDiv(FSub(current_value, prev.prev_value),
                           prev.prev_value))]
    IN IF n = 0
       THEN [prev_value |-> FloatOfDecimal(InitialCapital),
             daily_returns |-> <<>>]
       ELSE Taken(DailyReturnsLoop(history, n - 1),
                  FloatOfDecimal(history[n].total_value))

\* statistics.mean and statistics.stdev (the sample standard deviation, of
\* two values or more), with the sums taken in floats
Mean(data) == FDiv(FSum(data), FromInt(Len(data)))
Stdev(data) ==
    LET Square(d) == FMul(d, d)
        Deviation(mean) ==
          FSqrt(FDiv(FSum([i \in DOMAIN data |->
                              Square(FSub(data[i], mean))]),
                     FromInt(Len(data) - 1)))
    IN Deviation(Mean(data))

\* a test of the number of samples that wants three of them
ThreeReturns(daily_returns) == Len(daily_returns) > 2

\* len(daily_returns) > 1
EnoughReturns(daily_returns) == Len(daily_returns) > 1

TradingDays == 252

\* _calculate_results, lines 274-278; stdev is called only when the first
\* test holds
SharpeRatio(daily_returns) ==
    LET Annualized(stdev) ==
          IF stdev.m > 0
          THEN FMul(FDiv(Mean(daily_returns), stdev),
                    FSqrt(FromInt(TradingDays)))
          ELSE FZero
    IN IF EnoughReturns(daily_returns)
       THEN Annualized(Stdev(daily_returns))
       ELSE FZero

\* BacktestEngine._calculate_results: capital, total return, maximum
\* drawdown, and the trade log and history of the engine eng, which the
\* result references (trades=self.trades); the result of a run without
\* history gets lists of its own
calculate_results(strategy_name, tv, trds, history, eng) ==
    IF history = <<>>
    THEN [strategy_name |-> strategy_name, symbol |-> Symbol,
          initial_capital |-> ToFloat(InitialCapital),
          final_capital |-> ToFloat(InitialCapital),
          total_return |-> FZero, max_drawdown |-> FZero,
          sharpe_ratio |-> FZero,
          trades |-> <<>>, portfolio_values |-> <<>>, lists_of |-> eng]
    ELSE LET initial_capital == FloatOfDecimal(InitialCapital)
             final_capital == FloatOfDecimal(tv)
         IN [strategy_name |-> strategy_name, symbol |-> Symbol,
             initial_capital |-> ToFloat(InitialCapital),
             final_capital |-> ToFloat(tv),
             total_return |-> FDiv(FSub(final_capital, initial_capital),
                                   initial_capital),
             max_drawdown |-> DrawdownLoop(history, Len(history)).max_drawdown,
             sharpe_ratio |->
                 SharpeRatio(DailyReturnsLoop(history,
                                              Len(history)).daily_returns),
             trades |-> trds, portfolio_values |-> history, lists_of |-> eng]

\* run_backtest, lines 90-91: the signals of one bar executed in order by an
\* engine e, up to the first one that raises
RECURSIVE ExecuteSignals(_, _, _, _)
ExecuteSignals(signals, timestamp, mps, e) ==
    IF signals = <<>> \/ e.raised # NULL THEN e
    ELSE LET r == execute_signal(Head(signals), timestamp, mps,
                                 [cash |-> e.cash, total_value |-> e.total_value,
                                  positions |-> e.positions,
                                  trades |-> e.trades, log |-> <<>>])
         IN ExecuteSignals(Tail(signals), timestamp, mps,
                           [e EXCEPT !.cash = r.cash, !.positions = r.positions,
                                     !.trades = r.trades, !.raised = r.raised])

\* run_backtest, lines 80-94, on an engine of its own: the engine after the
\* first n bars of data
RECURSIVE RunBars(_, _, _, _, _, _)
RunBars(strat, calc, scr, data, mps, n) ==
    IF n = 0
    THEN [cash |-> InitialCapital, total_value |-> InitialCapital,
          positions |-> <<>>, trades |-> <<>>, history |-> <<>>,
          raised |-> NULL]
    ELSE LET before == RunBars(strat, calc, scr, data, mps, n - 1)
             current_data == SubSeq(data, 1, n)
             close == Last(current_data).close
             marked == [before EXCEPT
                          !.positions = MarkedPositions(before.positions, close),
                          !.total_value = MarkedTotalValue(before.cash,
                                                           before.positions,
                                                           close)]
             gen == GenerateSignals(strat, calc, scr, current_data)
             after == ExecuteSignals(gen.signals, data[n].timestamp, mps, marked)
         IN IF before.raised # NULL THEN before
            ELSE IF gen.raised # NULL THEN [marked EXCEPT !.raised = gen.raised]
            ELSE IF after.raised # NULL THEN after
            ELSE [after EXCEPT !.history =
                     Append(after.history,
                            Snapshot(data[n].timestamp, after.total_value,
                                     after.cash, after.positions))]

\* run_strategy_backtest for one name alone (lines 312-334): the strategy is
\* created, initialize gets the window, run_backtest runs on engine eng
RunAlone(strategy_name, parameters, window, closes, eng) ==
    LET made == create_strategy(strategy_name, parameters)
        e == RunBars(made.strategy, IndicatorCalculator(Bars(window)), <<>>,
                     Bars(closes), DefaultMaxPositionSize, Len(closes))
    IN IF made.raised # NULL THEN [raised |-> made.raised, result |-> None]
       ELSE IF NoData(Bars(closes))
       THEN [raised |-> "ValueError", result |-> None]
       ELSE IF e.raised # NULL THEN [raised |-> e.raised, result |-> None]
       ELSE [raised |-> NULL,
             result |-> calculate_results(made.strategy.name, e.total_value,
                                          e.trades, e.history, eng)]

\* a loop without the try/except around the run
CompareCatchesNothing(err) == FALSE

\* does the except clause of compare_strategies catch this error?
CompareCatches(err) == TRUE

\* ------------------------------------------------------------------- state
VARIABLES
    entry,                \* the entry point the caller invoked
    names,                \* strategy names requested (runner entry points)
    strategy_params,      \* parameters handed to the strategy configuration
    max_position_size,    \* BacktestConfig.max_position_size, <<num, den>>
    historical,           \* provider: the series of the backtest range
    init_window,          \* provider: the series it returned for the window
                          \*   [now - 1 or 2 years, now] of the last initialize
    script,               \* the caller-supplied strategy's signals per bar
    k,                    \* compare_strategies: index of the current name
    results,              \* compare_strategies: the results dict
    outcome,              \* what the entry point gave its caller
    pc,                   \* position of the current run
    strategy,             \* the strategy object of the current run
    indicator_calculator, \* strategy.indicator_calculator
    historical_data,      \* run_backtest's local historical_data
    step,                 \* number of bars fully processed
    pending,              \* signals of the current bar not yet executed
    cash,                 \* portfolio.cash
    total_value,          \* portfolio.total_value
    positions,            \* engine.positions
    trades,               \* engine.trades
    portfolio_history,    \* engine.portfolio_history
    error,                \* the exception that ended the run, and its origin
    result,               \* the BacktestResult of the current run
    log,                  \* warnings and errors logged
    fetches,              \* get_historical_data calls made so far
    engines,              \* BacktestEngine objects constructed so far
    prices,               \* indicator library: the prices handed to a call,
                          \*   in tenths
    period,               \* indicator library: the period handed to it
                          \*   (the fast period of macd, k_period)
    slow_period,          \* indicator library: the slow period of macd
    signal_period,        \* indicator library: the signal period of macd
    d_period,             \* indicator library: d_period of the stochastic
    called,               \* indicator library: the function that was called
    values                \* indicator library: the list it returned

\* the variables of a backtest, and those of a direct call of the library
backtest == <<entry, names, strategy_params, max_position_size, historical,
              init_window, script, k, results, outcome, pc, strategy,
              indicator_calculator, historical_data, step, pending, cash,
              total_value, positions, trades, portfolio_history, error, result,
              log, fetches, engines>>
arguments == <<prices, period, slow_period, signal_period, d_period>>
library == <<arguments, called, values>>

vars == <<backtest, library>>

\* what no step of a backtest changes: its arguments, and the variables of
\* the direct library calls
inputs == <<entry, names, strategy_params, max_position_size, historical,
            script, library>>

engineVars == <<cash, total_value, positions, trades, portfolio_history>>

\* --------------------------------------------------------------- the inputs
Closes == {1, MaxPrice}
Series == SeqsUpTo(Closes, MaxBars)

\* names a caller may request: the registry and one name outside it; the
\* lists handed to compare_strategies are drawn from two of them
RequestedNames == Registry \cup {"bogus"}
ComparedNames == {"sma_crossover", "bogus"}

\* strategy parameters: none given, in which case parameters.get falls back
\* to the defaults, or short periods with the default RSI levels
NoParameters ==
    [short_period |-> DefaultShortPeriod, long_period |-> DefaultLongPeriod,
     rsi_period |-> DefaultRsiPeriod, oversold |-> DefaultOversold,
     overbought |-> DefaultOverbought]
ShortPeriods ==
    [short_period |-> 1, long_period |-> 2, rsi_period |-> 2,
     oversold |-> DefaultOversold, overbought |-> DefaultOverbought]
ParameterChoices == { ShortPeriods, NoParameters }

\* the parameters worth handing to a strategy name: MACDStrategy and
\* MultiIndicatorStrategy read none, an unknown name never gets that far
ParametersOf(strategy_name) ==
    IF strategy_name \in {"sma_crossover", "rsi"} THEN ParameterChoices
    ELSE { NoParameters }

\* what a caller-supplied strategy may return for one bar: zero or one signal
ScriptEntries == {<<>>} \cup { <<t>> : t \in SignalTypes }

\* n times the close c
Rep(n, c) == [i \in 1..n |-> c]

\* Windows the provider returns to initialize.  Short ones: no bar, too few
\* bars for any indicator, no move, down and up, up and down, a fall, a rise,
\* a rise and a fall after a flat stretch, two zigzags (RSI(2) near 25 and
\* near 75).
ShortWindows ==
    { <<>>, <<1>>, <<1, 1, 1>>, <<2, 1, 2>>, <<1, 2, 1>>, <<2, 1, 1>>,
      <<1, 2, 2>>, <<1, 1, 2>>, <<2, 2, 1>>, <<2, 1, 2, 1>>, <<1, 2, 1, 2>> }
\* 21 bars on which SMA(5) crosses SMA(20) upwards at the last bar
Cross21 == Rep(15, 2) \o Rep(5, 1) \o <<6>>
\* 15 bars: flat, then a drop (RSI(14) has one value, 0)
Drop15 == Rep(14, 50) \o <<40>>
\* 35 bars on which the MACD line crosses its signal line upwards
Jump35 == Rep(30, 3) \o Rep(4, 2) \o <<6>>
\* 35 bars rising by steps: RSI 100, MACD below its signal line
Rise35 == [i \in 1..35 |-> 1 + ((i - 1) \div 6)]
\* 35 bars falling from 20 to 16: RSI below 30, MACD above its signal line,
\* lower Bollinger band near 13.8
Fall35 == Rep(21, 20) \o <<18, 16, 16, 17>> \o Rep(10, 16)

\* 35 bars that never rise, falling from 20 to 16 and then flat: RSI 0.0,
\* MACD above its signal line, lower Bollinger band above 2
Slide35 == Rep(21, 20) \o <<18, 16>> \o Rep(12, 16)

\* the windows that matter to a strategy: the short ones when its periods
\* are short, and the long ones that make it emit a signal
InitWindows(strat) ==
    IF strat.kind = "macd" THEN { <<>>, <<1>>, Jump35, Rise35 }
    ELSE IF strat.kind = "multi_indicator" THEN { <<>>, <<1>>, Fall35, Rise35, Slide35 }
    ELSE IF strat.parameters = ShortPeriods THEN ShortWindows
    ELSE IF strat.kind = "rsi" THEN { <<>>, <<1>>, Drop15, Rise35 }
    ELSE { <<>>, <<1>>, Cross21 }

NoError == [type |-> NULL, origin |-> NULL]
Pending == [status |-> "pending", error |-> NULL, value |-> None]

CustomStrategy == [kind |-> "custom", name |-> "custom", parameters |-> NoParameters]

\* the engine a caller of run_backtest constructs, and the state the
\* variables hold before a runner entry point has constructed one
FreshEngine(csh, tv, pos, trds, hist) ==
    /\ csh = InitialCapital
    /\ tv = InitialCapital
    /\ pos = <<>>
    /\ trds = <<>>
    /\ hist = <<>>

\* an engine object that outlives the run it was made for: the next run
\* finds the portfolio, positions, trades and history of the previous one
SharedEngine(eng, csh, tv, pos, trds, hist) ==
    /\ eng = engines
    /\ csh = cash
    /\ tv = total_value
    /\ pos = positions
    /\ trds = trades
    /\ hist = portfolio_history

\* run_strategy_backtest, line 331: BacktestEngine(backtest_config, ...)
\* makes one more engine, with a portfolio and lists of its own
NewEngine(eng, csh, tv, pos, trds, hist) ==
    /\ eng = engines + 1
    /\ FreshEngine(csh, tv, pos, trds, hist)

\* the locals of a run_backtest call that has not begun
FreshRun(calc, data, stp, pend, err, res) ==
    /\ calc = None
    /\ data = <<>>
    /\ stp = 0
    /\ pend = <<>>
    /\ err = NoError
    /\ res = None

Init ==
    /\ entry \in {"run_backtest", "run_strategy_backtest", "compare_strategies"}
    /\ historical \in Series
    /\ \/ /\ entry = "run_backtest"
          /\ max_position_size \in MaxPositionSizes
          /\ \/ /\ strategy = CustomStrategy
                /\ script \in [1..Len(historical) -> ScriptEntries]
                /\ strategy_params = NoParameters
             \/ /\ \E n \in Registry :
                      /\ strategy_params \in ParametersOf(n)
                      /\ strategy = create_strategy(n, strategy_params).strategy
                /\ script = <<>>
          /\ names = <<strategy.name>>
          /\ pc = "fetch"
          /\ engines = 1
       \/ /\ entry = "run_strategy_backtest"
          /\ max_position_size = DefaultMaxPositionSize
          /\ names \in [1..1 -> RequestedNames]
          /\ strategy_params \in ParametersOf(names[1])
          /\ script = <<>>
          /\ strategy = None
          /\ pc = "call"
          /\ engines = 0
       \/ /\ entry = "compare_strategies"
          /\ max_position_size = DefaultMaxPositionSize
          /\ names \in SeqsUpTo(ComparedNames, MaxStrategies)
          /\ strategy_params = NoParameters
          /\ script = <<>>
          /\ strategy = None
          /\ pc = "call"
          /\ engines = 0
    /\ init_window = <<>>
    /\ k = 1
    /\ results = <<>>
    /\ outcome = Pending
    /\ FreshEngine(cash, total_value, positions, trades, portfolio_history)
    /\ FreshRun(indicator_calculator, historical_data, step, pending, error,
                result)
    /\ log = <<>>
    /\ fetches = 0
    /\ prices = <<>>
    /\ period = 1
    /\ slow_period = 1
    /\ signal_period = 1
    /\ d_period = 1
    /\ called = NULL
    /\ values = <<>>

\* ----------------------------------------------------------------- actions
Raised(type) == [status |-> "raised", error |-> type, value |-> None]
Returned(value) == [status |-> "returned", error |-> NULL, value |-> value]

\* BacktestRunner.run_strategy_backtest up to the call of run_backtest: the
\* strategy is created, then the engine; called by the user or by the loop of
\* compare_strategies for names[k]
RunStrategyBacktest ==
    /\ pc = "call"
    /\ entry \in {"run_strategy_backtest", "compare_strategies"}
    /\ k <= Len(names)
    /\ LET made == create_strategy(names[k], strategy_params) IN
       IF made.raised # NULL
       THEN /\ error' = [type |-> made.raised, origin |-> "create_strategy"]
            /\ IF entry = "compare_strategies" /\ CompareCatches(made.raised)
               THEN /\ log' = Append(log, "error")
                    /\ k' = k + 1
                    /\ pc' = "call"
                    /\ outcome' = outcome
               ELSE /\ outcome' = Raised(made.raised)
                    /\ pc' = "done"
                    /\ UNCHANGED <<log, k>>
            /\ UNCHANGED <<strategy, engines, engineVars, indicator_calculator,
                           historical_data, step, pending, result>>
       ELSE /\ strategy' = made.strategy
            /\ NewEngine(engines', cash', total_value', positions', trades',
                         portfolio_history')
            /\ FreshRun(indicator_calculator', historical_data', step',
                        pending', error', result')
            /\ pc' = "fetch"
            /\ UNCHANGED <<log, k, outcome>>
    /\ UNCHANGED <<inputs, init_window, results, fetches>>

\* run_backtest: the historical data is fetched, an empty series is fatal
GetHistoricalData ==
    /\ pc = "fetch"
    /\ fetches' = fetches + 1
    /\ LET data == Bars(historical) IN
       IF NoData(data)
       THEN /\ pc' = "failed"
            /\ error' = [type |-> "ValueError", origin |-> "get_historical_data"]
            /\ UNCHANGED historical_data
       ELSE /\ pc' = "initialize"
            /\ historical_data' = data
            /\ UNCHANGED error
    /\ UNCHANGED <<inputs, init_window, k, results, outcome, strategy, indicator_calculator,
                   step, pending, engineVars, result, log, engines>>

\* strategy.initialize(): a strategy of the registry asks the provider for
\* the window that ends at datetime.now() and builds the calculator from the
\* answer; the abstract method of a caller-supplied strategy is taken to do
\* nothing
Initialize ==
    /\ pc = "initialize"
    /\ IF strategy.kind \in Registry
       THEN /\ fetches' = fetches + 1
            /\ init_window' \in InitWindows(strategy)
            /\ indicator_calculator' = IndicatorCalculator(Bars(init_window'))
            /\ log' = Append(log, "info")
       ELSE UNCHANGED <<fetches, init_window, indicator_calculator, log>>
    /\ pc' = "bar"
    /\ UNCHANGED <<inputs, k, results, outcome, strategy, historical_data,
                   step, pending, engineVars, error, result, engines>>

\* the head of one loop iteration: mark to market, then generate the signals
UpdateAndGenerate ==
    /\ pc = "bar"
    /\ step < Len(historical_data)
    /\ LET current_data == SubSeq(historical_data, 1, step + 1)
           close == Last(current_data).close
       IN \E gen \in {GenerateSignals(strategy, indicator_calculator, script,
                                  current_data)} :
          /\ positions' = MarkedPositions(positions, close)
          /\ total_value' = MarkedTotalValue(cash, positions, close)
          /\ IF gen.raised # NULL
             THEN /\ pc' = "failed"
                  /\ error' = [type |-> gen.raised, origin |-> "generate_signals"]
                  /\ UNCHANGED pending
             ELSE /\ pc' = "exec"
                  /\ pending' = gen.signals
                  /\ UNCHANGED error
    /\ UNCHANGED <<inputs, init_window, k, results, outcome, strategy, indicator_calculator,
                   historical_data, step, cash, trades, portfolio_history,
                   result, log, fetches, engines>>

\* one call of _execute_signal from the loop over the signals of the bar
ExecuteSignal ==
    /\ pc = "exec"
    /\ pending # <<>>
    /\ LET st == [cash |-> cash, total_value |-> total_value,
                  positions |-> positions, trades |-> trades, log |-> log]
           r == execute_signal(Head(pending),
                               historical_data[step + 1].timestamp,
                               max_position_size, st)
       IN /\ cash' = r.cash
          /\ positions' = r.positions
          /\ trades' = r.trades
          /\ log' = r.log
          /\ IF r.raised # NULL
             THEN /\ pc' = "failed"
                  /\ error' = [type |-> r.raised, origin |-> "_execute_signal"]
                  /\ UNCHANGED pending
             ELSE /\ pc' = "exec"
                  /\ pending' = Tail(pending)
                  /\ UNCHANGED error
    /\ UNCHANGED <<inputs, init_window, k, results, outcome, strategy, indicator_calculator,
                   historical_data, step, total_value, portfolio_history,
                   result, fetches, engines>>

\* the end of one loop iteration: _record_portfolio_state
RecordPortfolioState ==
    /\ pc = "exec"
    /\ pending = <<>>
    /\ portfolio_history' =
         Append(portfolio_history,
                Snapshot(historical_data[step + 1].timestamp, total_value,
                         cash, positions))
    /\ step' = step + 1
    /\ pc' = "bar"
    /\ UNCHANGED <<inputs, init_window, k, results, outcome, strategy, indicator_calculator,
                   historical_data, pending, cash, total_value, positions,
                   trades, error, result, log, fetches, engines>>

\* after the last bar: _calculate_results, run_backtest returns
CalculateResults ==
    /\ pc = "bar"
    /\ step = Len(historical_data)
    /\ result' = calculate_results(strategy.name, total_value, trades,
                                   portfolio_history, engines)
    /\ pc' = "completed"
    /\ log' = Append(log, "info")
    /\ UNCHANGED <<inputs, init_window, k, results, outcome, strategy, indicator_calculator,
                   historical_data, step, pending, engineVars, error, fetches,
                   engines>>

\* run_backtest has returned or raised: run_backtest and
\* run_strategy_backtest pass either on to their caller; compare_strategies
\* stores a result under the name and catches an exception
Deliver ==
    /\ pc \in {"completed", "failed"}
    /\ IF entry = "compare_strategies"
       THEN IF pc = "completed"
            THEN /\ results' = [n \in (DOMAIN results) \cup {names[k]} |->
                                   IF n = names[k] THEN result ELSE results[n]]
                 /\ log' = Append(log, "info")
                 /\ k' = k + 1
                 /\ pc' = "call"
                 /\ UNCHANGED outcome
            ELSE IF CompareCatches(error.type)
            THEN /\ log' = Append(log, "error")
                 /\ k' = k + 1
                 /\ pc' = "call"
                 /\ UNCHANGED <<results, outcome>>
            ELSE /\ outcome' = Raised(error.type)
                 /\ pc' = "done"
                 /\ UNCHANGED <<results, log, k>>
       ELSE /\ outcome' = IF pc = "completed" THEN Returned(result)
                          ELSE Raised(error.type)
            /\ pc' = "done"
            /\ UNCHANGED <<results, log, k>>
    /\ UNCHANGED <<inputs, init_window, strategy, indicator_calculator, historical_data,
                   step, pending, engineVars, error, result, fetches, engines>>

\* compare_strategies: the loop over the names is over, the dict is returned
CompareReturn ==
    /\ pc = "call"
    /\ entry = "compare_strategies"
    /\ k > Len(names)
    /\ outcome' = Returned(results)
    /\ pc' = "done"
    /\ UNCHANGED <<inputs, init_window, k, results, strategy, indicator_calculator,
                   historical_data, step, pending, engineVars, error, result,
                   log, fetches, engines>>

Next ==
    \/ RunStrategyBacktest
    \/ GetHistoricalData
    \/ Initialize
    \/ UpdateAndGenerate
    \/ ExecuteSignal
    \/ RecordPortfolioState
    \/ CalculateResults
    \/ Deliver
    \/ CompareReturn

Spec == Init /\ [][Next]_vars

\* the scheduling of the code: a single sequential task that always takes its
\* next step
FairSpec == Spec /\ WF_vars(Next)

\* ------------------------------------------------- the indicator library
\* TechnicalIndicators called directly, as the unit tests do: a list of
\* prices and a period go in, a list of values comes out.
MaxLength == 4
MaxPeriod == 3

\* prices in tenths: 0.1, 1.0 and 2.0
Tenths == {1, 10, 20}

\* the lists of the unit tests: 10..15, and 15 times 50 with the last price
\* set to 40; and 15 times 50 followed by 40
TestSma == <<100, 110, 120, 130, 140, 150>>
TestRsi == Rep(14, 500) \o <<400>>
\* the list of the MACD script: 10, 11, ..., 40
TestMacd == [i \in 1..31 |-> 100 + (10 * (i - 1))]
Flat15Drop == Rep(15, 500) \o <<400>>

PriceLists ==
    SeqsUpTo(Tenths, MaxLength) \cup {TestSma, TestRsi, Flat15Drop, TestMacd}
Periods == (1..MaxPeriod) \cup {MacdFastPeriod, DefaultRsiPeriod}

\* the further periods of a call, as <<slow_period - fast_period,
\* signal_period, d_period>>: the defaults, and short ones
DefaultDPeriod == 3
FurtherPeriods ==
    { <<MacdSlowPeriod - MacdFastPeriod, MacdSignalPeriod, DefaultDPeriod>>,
      <<1, 2, 2>>, <<0, 1, 1>> }

\* the bars behind a list of closes: the high one tenth above the close,
\* the low one tenth below it, and the same volume on every bar
BarVolume == 100
Highs(tenths) == [i \in 1..Len(tenths) |-> FromRatio(tenths[i] + 1, 10)]
Lows(tenths) == [i \in 1..Len(tenths) |-> FromRatio(tenths[i] - 1, 10)]
Volumes(tenths) == [i \in 1..Len(tenths) |-> BarVolume]

\* the list of floats the caller passes
Floats(tenths) == [i \in 1..Len(tenths) |-> FromRatio(tenths[i], 10)]

\* no backtest is under way
AtRest ==
    /\ entry = NULL
    /\ names = <<>>
    /\ strategy_params = NoParameters
    /\ max_position_size = DefaultMaxPositionSize
    /\ historical = <<>>
    /\ init_window = <<>>
    /\ script = <<>>
    /\ k = 1
    /\ results = <<>>
    /\ outcome = Pending
    /\ pc = "done"
    /\ strategy = None
    /\ FreshEngine(cash, total_value, positions, trades, portfolio_history)
    /\ FreshRun(indicator_calculator, historical_data, step, pending, error,
                result)
    /\ log = <<>>
    /\ fetches = 0
    /\ engines = 0

IndicatorInit ==
    /\ AtRest
    /\ prices \in PriceLists
    /\ period \in Periods
    /\ \E further \in FurtherPeriods :
          /\ slow_period = period + further[1]
          /\ signal_period = further[2]
          /\ d_period = further[3]
    /\ called = NULL
    /\ values = <<>>

\* TechnicalIndicators.simple_moving_average(prices, period)
SimpleMovingAverage ==
    /\ called = NULL
    /\ called' = "simple_moving_average"
    /\ values' = simple_moving_average(Floats(prices), period)
    /\ UNCHANGED <<backtest, arguments>>

\* TechnicalIndicators.relative_strength_index(prices, period)
RelativeStrengthIndex ==
    /\ called = NULL
    /\ called' = "relative_strength_index"
    /\ values' = relative_strength_index(Floats(prices), period)
    /\ UNCHANGED <<backtest, arguments>>

\* TechnicalIndicators.exponential_moving_average(prices, period)
ExponentialMovingAverage ==
    /\ called = NULL
    /\ called' = "exponential_moving_average"
    /\ values' = exponential_moving_average(Floats(prices), period)
    /\ UNCHANGED <<backtest, arguments>>

\* TechnicalIndicators.macd(prices, fast_period, slow_period, signal_period)
Macd ==
    /\ called = NULL
    /\ called' = "macd"
    /\ values' = macd(Floats(prices), period, slow_period, signal_period)
    /\ UNCHANGED <<backtest, arguments>>

\* TechnicalIndicators.bollinger_bands(prices, period, 2)
BollingerBands ==
    /\ called = NULL
    /\ called' = "bollinger_bands"
    /\ values' = bollinger_bands(Floats(prices), period, BollingerStdDev)
    /\ UNCHANGED <<backtest, arguments>>

\* TechnicalIndicators.stochastic_oscillator(high, low, close, k_period,
\* d_period)
StochasticOscillator ==
    /\ called = NULL
    /\ called' = "stochastic_oscillator"
    /\ values' = stochastic_oscillator(Highs(prices), Lows(prices),
                                       Floats(prices), period, d_period)
    /\ UNCHANGED <<backtest, arguments>>

\* TechnicalIndicators.average_true_range(high, low, close, period)
AverageTrueRange ==
    /\ called = NULL
    /\ called' = "average_true_range"
    /\ values' = average_true_range(Highs(prices), Lows(prices),
                                    Floats(prices), period)
    /\ UNCHANGED <<backtest, arguments>>

\* TechnicalIndicators.on_balance_volume(close, volumes)
OnBalanceVolume ==
    /\ called = NULL
    /\ \E r \in {on_balance_volume(Floats(prices), Volumes(prices))} :
          /\ called' = IF r.raised # NULL THEN r.raised
                       ELSE "on_balance_volume"
          /\ values' = r.obv
    /\ UNCHANGED <<backtest, arguments>>

IndicatorNext ==
    \/ SimpleMovingAverage
    \/ ExponentialMovingAverage
    \/ RelativeStrengthIndex
    \/ Macd
    \/ BollingerBands
    \/ StochasticOscillator
    \/ AverageTrueRange
    \/ OnBalanceVolume

IndicatorSpec == IndicatorInit /\ [][IndicatorNext]_vars

\* ------------------------------------------------------------------ claims
\* the signal that the next ExecuteSignal step hands to _execute_signal
Executing == pc = "exec" /\ pending # <<>>
Sig == Head(pending)
Sized == SizedQuantity(total_value, max_position_size, Sig.price)
Held == positions[Sig.symbol].quantity
Range(s) == { s[i] : i \in DOMAIN s }

\* the value of the open positions at their current prices
PositionsValue(pos) ==
    SumOver(DOMAIN pos,
            [s \in DOMAIN pos |-> pos[s].quantity * pos[s].current_price])

\* the state right after _record_portfolio_state appended a snapshot
JustRecorded == pc = "bar" /\ step > 0

\* C1 -- Conservation: in every snapshot appended to the portfolio history
\* the recorded total_value equals the recorded cash plus the sum over the
\* open positions of quantity x current price, within 1e-6 relative tolerance.
Conservation ==
    JustRecorded =>
        LET snap == Last(portfolio_history)
            held == SumOver(DOMAIN snap.positions,
                        [s \in DOMAIN snap.positions |->
                            snap.positions[s].quantity * positions[s].current_price])
        IN Abs(snap.total_value - (snap.cash + held))
               <= snap.total_value \div ToleranceDen

\* C2 -- No look-ahead: the signals produced at the step for bar i are the
\* ones the strategy computes from indicator values over exactly the bar
\* prefix 0..i of the historical series.
NoLookAhead ==
    [][ (pc = "bar" /\ pc' = "exec" /\ strategy.kind = "sma_crossover")
        => LET current_data == SubSeq(historical_data, 1, step + 1)
           IN pending' = SmaGenerateSignals(IndicatorCalculator(current_data),
                                            strategy.parameters,
                                            current_data).signals ]_vars

\* an accepted SELL: a SELL for a symbol with an open position and sized
\* quantity > 0
SellAccepted ==
    /\ Executing
    /\ Sig.signal_type = "SELL"
    /\ Sig.symbol \in DOMAIN positions
    /\ Sized > 0

\* C3 -- An accepted SELL sells min(sized, held): it credits cash with
\* execPrice x soldQty - commission, reduces the position by soldQty, deletes
\* the position when its quantity reaches zero, appends exactly one SELL Trade
\* carrying the realized P&L, and the run continues.
AcceptedSellFills ==
    [][ SellAccepted
        => LET sym == Sig.symbol
               sold == Min(Sized, Held)
               execPrice == ExecutionPrice("SELL", Sig.price)
           IN /\ Len(trades') = Len(trades) + 1
              /\ SubSeq(trades', 1, Len(trades)) = trades
              /\ Last(trades').side = "SELL"
              /\ Last(trades').quantity = sold
              /\ Last(trades').price = execPrice
              /\ Last(trades').pnl # None
              /\ cash' = cash + (execPrice * sold) - Last(trades').commission
              /\ IF Held - sold = 0
                 THEN sym \notin DOMAIN positions'
                 ELSE /\ sym \in DOMAIN positions'
                      /\ positions'[sym].quantity = Held - sold
              /\ pc' = "exec" ]_vars

\* C4 -- Position non-negativity: every entry of the position map has
\* quantity > 0, and during a run a position leaves the map exactly when a SELL
\* of its whole quantity is executed.
PositionNonNegativity ==
    [][ (pc \in {"bar", "exec"})
        => /\ \A s \in DOMAIN positions' : positions'[s].quantity > 0
           /\ \A s \in DOMAIN positions :
                 (s \notin DOMAIN positions')
                   <=> (SellAccepted /\ Sig.symbol = s /\ Min(Sized, Held) = Held)
      ]_vars

\* Scenario E, first SELL: a SELL on a held symbol that sells part of the
\* holding, followed on the next bar by a SELL whose sized quantity exceeds
\* what the first one leaves
FirstOfTwoSells ==
    /\ SellAccepted
    /\ strategy.kind = "custom"
    /\ Sized < Held
    /\ step + 2 <= Len(historical_data)
    /\ script[step + 2] = <<"SELL">>
    /\ LET execPrice == ExecutionPrice("SELL", Sig.price)
           close2 == historical_data[step + 2].close
           cash2 == cash + (execPrice * Sized) - Commission(execPrice, Sized)
           tv2 == cash2 + ((Held - Sized) * close2)
       IN SizedQuantity(tv2, max_position_size, close2) > Held - Sized

\* Scenario E, second SELL: the fill before it was a SELL and its sized
\* quantity exceeds the holding
SecondOfTwoSells ==
    /\ SellAccepted
    /\ trades # <<>>
    /\ Last(trades).side = "SELL"
    /\ Sized > Held

\* C5 -- Scenario E: of two consecutive SELL signals for the same held symbol
\* the first leaves the remainder in the map and the run goes on to the
\* second, which is clamped to the remaining quantity and after which the
\* symbol's entry is absent from the position map.
ScenarioE ==
    [][ /\ FirstOfTwoSells
           => /\ pc' = "exec"
              /\ Sig.symbol \in DOMAIN positions'
              /\ positions'[Sig.symbol].quantity = Held - Sized
        /\ SecondOfTwoSells
           => /\ Len(trades') = Len(trades) + 1
              /\ Last(trades').quantity = Held
              /\ Sig.symbol \notin DOMAIN positions' ]_vars

\* a signal that is softly rejected: a BUY whose total cost exceeds the cash,
\* or a SELL for a symbol with no open position
Rejected ==
    /\ Executing
    /\ Sized > 0
    /\ \/ /\ Sig.signal_type = "BUY"
          /\ LET execPrice == ExecutionPrice("BUY", Sig.price)
             IN (execPrice * Sized) + Commission(execPrice, Sized) > cash
       \/ /\ Sig.signal_type = "SELL"
          /\ Sig.symbol \notin DOMAIN positions

\* C6 -- Soft rejection: a rejected signal leaves cash, the position map and
\* the trade log unchanged and raises nothing; once the signals of the bar are
\* through, the loop records the snapshot of this bar and turns to the next.
SoftRejection ==
    [][ /\ Rejected
           => /\ UNCHANGED <<cash, positions, trades>>
              /\ error' = NoError
              /\ pc' = "exec"
              /\ pending' = Tail(pending)
        /\ (pc = "exec" /\ pending = <<>>)
           => /\ Len(portfolio_history') = Len(portfolio_history) + 1
              /\ Last(portfolio_history').timestamp
                   = historical_data[step + 1].timestamp
              /\ step' = step + 1
              /\ pc' = "bar" ]_vars

\* a run in which a SELL without position and a BUY without the cash were
\* both rejected and which completed with a snapshot for each of its bars
WitnessSoftRejection ==
    /\ pc = "completed"
    /\ strategy.kind = "custom"
    /\ Len(historical_data) = 3
    /\ script[1] = <<"SELL">>
    /\ "warning" \in Range(log)
    /\ Len(portfolio_history) = 3

\* C7 -- Scenario D: on an empty historical series run_backtest raises to its
\* caller and returns no BacktestResult; the strategy is never initialized, no
\* bar is processed, and portfolio, trade log and history stay untouched.
EmptySeriesFails ==
    historical = <<>> =>
        /\ pc \notin {"initialize", "bar", "exec", "completed"}
        /\ indicator_calculator = None
        /\ fetches <= engines
        /\ step = 0
        /\ result = None
        /\ FreshEngine(cash, total_value, positions, trades, portfolio_history)
        /\ pc = "failed"
             => error = [type |-> "ValueError", origin |-> "get_historical_data"]
        /\ outcome.status = "returned"
             => (entry = "compare_strategies" /\ outcome.value = <<>>)
        /\ (pc = "done" /\ entry = "run_backtest") => outcome = Raised("ValueError")

WitnessEmptySeries ==
    /\ historical = <<>>
    /\ entry = "run_backtest"
    /\ pc = "done"
    /\ outcome.status = "raised"
    /\ fetches = 1

\* C8 -- InvalidStrategyName: a strategy name outside the registry fails at
\* construction and is surfaced to the caller before any simulation work: no
\* historical data is fetched, no engine is created, no bar is processed.
UnknownStrategyFailsFirst ==
    [][ (pc = "call" /\ k <= Len(names)
           /\ names[k] \notin {"sma_crossover", "rsi", "macd", "multi_indicator"})
        => /\ fetches' = fetches
           /\ engines' = engines
           /\ UNCHANGED <<engineVars, step, historical_data, strategy>>
           /\ pc' \in {"call", "done"}
           /\ entry = "run_strategy_backtest"
                => /\ outcome' = Raised("ValueError")
                   /\ pc' = "done"
                   /\ fetches' = 0
                   /\ engines' = 0
                   /\ portfolio_history' = <<>> ]_vars

WitnessUnknownStrategy ==
    /\ entry = "run_strategy_backtest"
    /\ names = <<"bogus">>
    /\ pc = "done"
    /\ outcome = Raised("ValueError")
    /\ engines = 0

\* the call meets a setup-time error: a requested name is not in the registry,
\* or the provider has no data for the range of a run that gets to fetch it
SetupError ==
    \/ /\ entry = "run_backtest"
       /\ historical = <<>>
    \/ /\ entry = "run_strategy_backtest"
       /\ (names[1] \notin Registry \/ historical = <<>>)
    \/ /\ entry = "compare_strategies"
       /\ \E i \in DOMAIN names : (names[i] \notin Registry \/ historical = <<>>)

\* C9 -- as claimed: setup-time errors propagate to the caller unchanged from
\* every backtest entry point, compare_strategies included.
SetupErrorsPropagateEverywhere ==
    (pc = "done" /\ SetupError) => outcome = Raised("ValueError")

\* C9 -- as amended: setup-time errors propagate to the caller unchanged from
\* run_backtest and run_strategy_backtest; compare_strategies catches the
\* error of a strategy, logs it, leaves that strategy out of the returned dict
\* and returns normally.
SetupErrorsPropagate ==
    (pc = "done" /\ SetupError) =>
        IF entry = "compare_strategies"
        THEN /\ outcome.status = "returned"
             /\ outcome.value = results
             /\ "error" \in Range(log)
             /\ \A n \in DOMAIN results : n \in Registry /\ historical # <<>>
        ELSE outcome = Raised("ValueError")

WitnessSetupErrorCaught ==
    /\ entry = "compare_strategies"
    /\ pc = "done"
    /\ names = <<"bogus", "sma_crossover">>
    /\ outcome.status = "returned"
    /\ DOMAIN outcome.value = {"sma_crossover"}

\* C10 -- Run completion: on a non-empty series no signal the strategy emits
\* aborts the run, and a completed run returns a BacktestResult whose history
\* holds exactly one snapshot per bar, in bar order.
RunCompletion ==
    /\ pc = "failed" => error.origin # "_execute_signal"
    /\ pc = "completed"
         => /\ Len(portfolio_history) = Len(historical_data)
            /\ \A i \in DOMAIN portfolio_history :
                  portfolio_history[i].timestamp = historical_data[i].timestamp
            /\ result.portfolio_values = portfolio_history

\* two BacktestResults with the same content: name, capital, metrics, trades
\* and per-step history (which lists hold them is left aside)
SameResult(a, b) ==
    [a EXCEPT !.lists_of = 0] = [b EXCEPT !.lists_of = 0]

\* C11: idempotent re-run.  compare_strategies runs a name that its list
\* holds twice two times over the same bar series with the same
\* configuration, each time on a fresh engine: the second BacktestResult is
\* identical to the first one (same trades, same per-step history, same
\* metrics), whatever the time at which each run starts.
IdempotentRerun ==
    (/\ entry = "compare_strategies"
     /\ pc = "completed"
     /\ names[k] \in DOMAIN results)
        => SameResult(result, results[names[k]])

\* C12: isolation of compared runs.  The BacktestResult a run of
\* compare_strategies completes with is the one run_strategy_backtest gives
\* for that name alone (given the window its initialize was answered with),
\* whatever ran before it in the list; the engine of a run in progress is
\* none whose lists a stored result holds, and no two stored results hold the
\* lists of one engine.
IsolatedRuns ==
    entry = "compare_strategies" =>
        /\ pc = "completed" =>
              LET alone == RunAlone(names[k], strategy_params, init_window,
                                    historical, engines)
              IN alone.raised = NULL /\ result = alone.result
        /\ pc \in {"fetch", "initialize", "bar", "exec", "completed", "failed"} =>
              \A n \in DOMAIN results : results[n].lists_of # engines
        /\ \A n, m \in DOMAIN results :
              n # m => results[n].lists_of # results[m].lists_of

\* a second run of a list has completed with trades after a first one with
\* trades was stored
WitnessIsolatedRuns ==
    /\ entry = "compare_strategies"
    /\ pc = "completed"
    /\ k = 2
    /\ DOMAIN results # {}
    /\ \E n \in DOMAIN results : results[n].trades # <<>>
    /\ result.trades # <<>>

\* the number of bars below which one of the indicators a strategy queries
\* has no value: the longer SMA, period + 1 changes for the RSI, the slow EMA
\* of the MACD
MinimumWindow(strat) ==
    IF strat.kind = "sma_crossover"
    THEN IF strat.parameters.short_period > strat.parameters.long_period
         THEN strat.parameters.short_period
         ELSE strat.parameters.long_period
    ELSE IF strat.kind = "rsi" THEN strat.parameters.rsi_period + 1
    ELSE MacdSlowPeriod

\* C13: InsufficientHistory.  While the calculator of a registry strategy
\* holds fewer bars than the minimum window of an indicator the strategy
\* queries, zero bars included, generate_signals raises nothing and returns
\* an empty list: the step goes on to execute no signal.
InsufficientHistory ==
    (/\ pc = "exec" \/ (pc = "failed" /\ error.origin = "generate_signals")
     /\ strategy.kind \in Registry
     /\ Len(indicator_calculator.close_prices) < MinimumWindow(strategy))
        => /\ pc = "exec"
           /\ pending = <<>>

\* C14: what a registry strategy's generate_signals has returned for the bar
\* being processed is a list of zero or one Signal; an emitted Signal is a BUY
\* or a SELL, carries the symbol of the strategy's configuration, and the
\* timestamp and the close of the last bar passed in.
SignalShape ==
    (pc = "exec" /\ strategy.kind \in Registry) =>
        /\ Len(pending) <= 1
        /\ \A i \in DOMAIN pending :
              /\ pending[i].signal_type \in {"BUY", "SELL"}
              /\ pending[i].symbol = Symbol
              /\ pending[i].timestamp = historical_data[step + 1].timestamp
              /\ pending[i].price = historical_data[step + 1].close

\* the multi-indicator strategy has emitted a SELL at the second bar
WitnessSignalShape ==
    /\ pc = "exec"
    /\ strategy.kind = "multi_indicator"
    /\ step = 1
    /\ pending # <<>>
    /\ pending[1].signal_type = "SELL"

\* x in units of 2^e0, for e0 <= x.e
Units(x, e0) == x.m * 2^(x.e - e0)

\* the smallest exponent among xs and v
RECURSIVE MinExponent(_, _)
MinExponent(xs, v) ==
    IF xs = <<>> THEN v.e
    ELSE Min(Head(xs).e, MinExponent(Tail(xs), v))

\* period times the i-th value and the exact sum of the i-th window, in
\* units of 2^unit: the exact mean is sum / period
MeanOf(i) ==
    LET window == SubSeq(Floats(prices), i, i + period - 1)
        e0 == MinExponent(window, values[i])
    IN [unit |-> e0, value |-> period * Units(values[i], e0),
        sum |-> SumSeq([j \in 1..period |-> Units(window[j], e0)])]

SmaCalled == called = "simple_moving_average" /\ Len(prices) >= period
Constant == \A i \in DOMAIN prices : prices[i] = prices[1]

\* C15, as stated: simple_moving_average returns n - period + 1 values, the
\* k-th is the arithmetic mean of prices[k .. k+period-1] (the float nearest
\* to it); SMA(3) of 10..15 is [11, 12, 13, 14]; for a constant list every
\* value equals the constant.
SmaExact ==
    SmaCalled =>
        /\ Len(values) = Len(prices) - period + 1
        /\ \A i \in DOMAIN values :
              values[i] = DivBits(MeanOf(i).sum \div period,
                                  MeanOf(i).sum % period, period, MeanOf(i).unit)
        /\ (prices = TestSma /\ period = 3) =>
               values = <<FromInt(11), FromInt(12), FromInt(13), FromInt(14)>>
        /\ Constant => \A i \in DOMAIN values : values[i] = Floats(prices)[1]

\* C15, amended: the k-th value is the mean of the window up to the rounding
\* of the float additions and of the division, each of a relative size of
\* 2^-MantissaBits; it is the exact mean for the whole numbers 10..15, and
\* for a constant list it is the constant up to that rounding.
SmaRounded ==
    SmaCalled =>
        /\ Len(values) = Len(prices) - period + 1
        /\ \A i \in DOMAIN values :
              Abs(MeanOf(i).value - MeanOf(i).sum)
                 <= ((period + 1) * MeanOf(i).sum) \div 2^MantissaBits
        /\ (prices = TestSma /\ period = 3) =>
               values = <<FromInt(11), FromInt(12), FromInt(13), FromInt(14)>>
        /\ Constant =>
               \A i \in DOMAIN values :
                  LET c == Floats(prices)[1]
                      e0 == Min(c.e, values[i].e)
                  IN Abs(Units(values[i], e0) - Units(c, e0))
                        <= ((period + 1) * Units(c, e0)) \div 2^MantissaBits

\* SMA(3) of three times 0.1 has been computed, and it is not 0.1
WitnessSmaRounded ==
    /\ SmaCalled
    /\ prices = <<1, 1, 1>>
    /\ period = 3
    /\ values # <<Floats(prices)[1]>>

\* C16, as stated: RSI(14) over 15 flat values of 50 followed by a drop to
\* 40 yields exactly one RSI value, and that value is below 50.
RsiScenarioAsStated ==
    (called = "relative_strength_index" /\ prices = Flat15Drop
     /\ period = DefaultRsiPeriod)
        => /\ Len(values) = 1
           /\ FLt(values[1], FromInt(50))

\* C16, amended: RSI(14) over 15 prices, 14 flat values of 50 followed by a
\* drop to 40, yields exactly one RSI value, and that value is below 50.
RsiScenario ==
    (called = "relative_strength_index" /\ prices = TestRsi
     /\ period = DefaultRsiPeriod)
        => /\ Len(values) = 1
           /\ FLt(values[1], FromInt(50))

\* the RSI of the 15 prices has been computed: one value, 0
WitnessRsiScenario ==
    /\ called = "relative_strength_index"
    /\ prices = TestRsi
    /\ period = DefaultRsiPeriod
    /\ values = <<FZero>>

\* an accepted BUY: a BUY with a sized quantity > 0 whose cost the cash covers
BuyAccepted ==
    /\ Executing
    /\ Sig.signal_type = "BUY"
    /\ Sized > 0
    /\ LET execPrice == ExecutionPrice("BUY", Sig.price)
       IN (execPrice * Sized) + Commission(execPrice, Sized) <= cash

\* Scenario C run through _execute_signal, money in units of 1/SlippageDen
\* (0.0001): a BUY at 100 on an engine with cash and total value 10000 and
\* the default position size 0.1, which sizes the quantity to 10
ScenarioCFill ==
    LET signal == [symbol |-> Symbol, signal_type |-> "BUY", timestamp |-> 1,
                   price |-> 100 * SlippageDen]
        st == [cash |-> 10000 * SlippageDen, total_value |-> 10000 * SlippageDen,
               positions |-> <<>>, trades |-> <<>>, log |-> <<>>]
        after == execute_signal(signal, 1, DefaultMaxPositionSize, st)
    IN [trade |-> Last(after.trades), debit |-> st.cash - after.cash]

\* C17: Scenario C.  An accepted BUY of quantity q at signal price p executes
\* at p x (1 + slippage), is charged commission = execPrice x q x
\* commission_rate and lowers cash by exactly execPrice x q + commission; for
\* p = 100 and q = 10 the execution price is 100.05, the commission 1.0005
\* and the cash debit 1001.5005.
ScenarioC ==
    [][ BuyAccepted
        => LET fill == Last(trades')
           IN /\ Len(trades') = Len(trades) + 1
              /\ fill.side = "BUY"
              /\ fill.quantity = Sized
              /\ (fill.price - Sig.price) * SlippageDen = Sig.price * SlippageNum
              /\ fill.commission * CommissionDen
                    = fill.price * fill.quantity * CommissionNum
              /\ cash' = cash - ((fill.price * fill.quantity) + fill.commission)
              /\ ScenarioCFill.trade.quantity = 10
              /\ ScenarioCFill.trade.price = 1000500
              /\ ScenarioCFill.trade.commission = 10005
              /\ ScenarioCFill.debit = 10015005 ]_vars

\* a BUY has just been filled at the bar being processed
WitnessScenarioC ==
    /\ pc = "exec"
    /\ pending = <<>>
    /\ trades # <<>>
    /\ Last(trades).side = "BUY"
    /\ Last(trades).timestamp = step + 1
    /\ cash < InitialCapital

\* the float value of the i-th snapshot, the largest of the initial capital
\* and the values up to the i-th, and the drawdown of the i-th from it
ValueAt(history, i) == FloatOfDecimal(history[i].total_value)
RunningPeak(history, i) ==
    LET seen == {FloatOfDecimal(InitialCapital)}
                   \cup { ValueAt(history, j) : j \in 1..i }
    IN CHOOSE x \in seen : \A y \in seen : FLe(y, x)
DrawdownAt(history, i) ==
    FDiv(FSub(RunningPeak(history, i), ValueAt(history, i)),
         RunningPeak(history, i))

\* C18: monotonic drawdown tracking.  The max_drawdown of a result, computed
\* over the full portfolio history, is >= the one computed over any prefix of
\* the history, and it is the largest value of (runningPeak - value) /
\* runningPeak, where the running peak never decreases.
MonotonicDrawdown ==
    pc = "completed" =>
        LET history == result.portfolio_values
            n == Len(history)
        IN /\ \A i \in 0..n :
                 FLe(DrawdownLoop(history, i).max_drawdown, result.max_drawdown)
           /\ \A i \in 1..n : FLe(DrawdownAt(history, i), result.max_drawdown)
           /\ \E i \in 1..n : DrawdownAt(history, i) = result.max_drawdown
           /\ \A i \in 1..n :
                 /\ DrawdownLoop(history, i).peak = RunningPeak(history, i)
                 /\ FLe(DrawdownLoop(history, i - 1).peak,
                        DrawdownLoop(history, i).peak)

\* a run has completed whose value fell below the peak and recovered in part:
\* the drawdown of the last snapshot is smaller than the maximum
WitnessMonotonicDrawdown ==
    /\ pc = "completed"
    /\ result.max_drawdown.m > 0
    /\ LET history == result.portfolio_values
       IN FLt(DrawdownAt(history, Len(history)), result.max_drawdown)

\* C19: the trade log is append-only.  Across the steps of an engine the
\* trade log only grows at its end, recorded Trades are never edited or
\* removed, and exactly one Trade is appended per accepted fill, none for a
\* rejected or ignored signal.
TradeLogAppendOnly ==
    [][ engines' = engines
        => /\ Len(trades') >= Len(trades)
           /\ SubSeq(trades', 1, Len(trades)) = trades
           /\ Len(trades') - Len(trades)
                 = IF BuyAccepted \/ SellAccepted THEN 1 ELSE 0 ]_vars

\* the commission a fill of the given quantity at the given price is due
CommissionDue(charged, price, quantity) ==
    charged * CommissionDen = price * quantity * CommissionNum

IsFloor(q, num, den) == q * den <= num /\ num < (q + 1) * den

\* the signal in execution is a BUY or a SELL
Tradable == Executing /\ Sig.signal_type \in {"BUY", "SELL"}

\* C21: position sizing.  For every BUY/SELL signal the sized quantity is
\* floor(total_value x max_position_size / signal.price), total_value being
\* the value marked to market at the start of the step: an accepted BUY
\* fills that quantity, an accepted SELL that is not clamped is credited for
\* it, and a signal whose sized quantity is <= 0 changes no cash, no position
\* and appends no Trade.
PositionSizing ==
    [][ /\ (pc = "bar" /\ pc' = "exec")
           => total_value'
                = MarkedTotalValue(cash, positions,
                                   historical_data[step + 1].close)
        /\ Executing => total_value' = total_value
        /\ Tradable
           => LET num == total_value * max_position_size[1]
                  den == max_position_size[2] * Sig.price
              IN /\ (num < den)
                    => /\ cash' = cash
                       /\ positions' = positions
                       /\ trades' = trades
                 /\ (num >= den /\ Len(trades') = Len(trades) + 1)
                    => IsFloor(Last(trades').quantity, num, den)
                 /\ (num >= den /\ Sig.signal_type = "SELL" /\ cash' # cash)
                    => \E q \in 1..Held :
                          /\ IsFloor(q, num, den) \/ (q = Held /\ q * den <= num)
                          /\ cash' - cash
                               = (ExecutionPrice("SELL", Sig.price) * q)
                                 - ((ExecutionPrice("SELL", Sig.price)
                                     * (num \div den) * CommissionNum)
                                    \div CommissionDen) ]_vars

\* a BUY or SELL signal sized to zero is about to be executed on an engine
\* that has filled a sized order before
WitnessPositionSizing ==
    /\ Tradable
    /\ total_value * max_position_size[1] < max_position_size[2] * Sig.price
    /\ trades # <<>>

\* C22: BUY merge.  An accepted BUY for a symbol that already has a position
\* sets quantity to oldQty + newQty and entry_price to (oldQty x oldEntry +
\* newQty x execPrice) / (oldQty + newQty), the quotient kept to the
\* resolution of the Decimal, and leaves entry_date unchanged; an accepted
\* BUY for a symbol without a position creates one with quantity newQty and
\* entry_price execPrice.
BuyMerge ==
    [][ BuyAccepted
        => LET sym == Sig.symbol
               fill == Last(trades')
               newQty == fill.quantity
               execPrice == fill.price
           IN /\ Len(trades') = Len(trades) + 1
              /\ sym \in DOMAIN positions'
              /\ IF sym \in DOMAIN positions
                 THEN LET old == positions[sym]
                          new == positions'[sym]
                          cost == (old.quantity * old.entry_price)
                                  + (newQty * execPrice)
                      IN /\ new.quantity = old.quantity + newQty
                         /\ IsFloor(new.entry_price, cost, new.quantity)
                         /\ new.entry_date = old.entry_date
                 ELSE /\ positions'[sym].quantity = newQty
                      /\ positions'[sym].entry_price = execPrice ]_vars

\* a BUY at another price has just been merged into a position opened at an
\* earlier bar
WitnessBuyMerge ==
    /\ pc = "exec"
    /\ Len(trades) >= 2
    /\ Last(trades).side = "BUY"
    /\ Last(trades).timestamp = step + 1
    /\ Symbol \in DOMAIN positions
    /\ positions[Symbol].quantity > Last(trades).quantity
    /\ positions[Symbol].entry_date < Last(trades).timestamp
    /\ positions[Symbol].entry_price # Last(trades).price
    /\ positions[Symbol].entry_price # trades[1].price

\* C23: signals of type HOLD or NO_SIGNAL are ignored by the engine:
\* executing one leaves cash, total_value, the position map and the trade
\* log unchanged (and the loop goes on to the next signal).
HoldIgnored ==
    [][ (Executing /\ Sig.signal_type \in {"HOLD", "NO_SIGNAL"})
        => /\ cash' = cash
           /\ total_value' = total_value
           /\ positions' = positions
           /\ trades' = trades
           /\ pc' = "exec"
           /\ pending' = Tail(pending) ]_vars

\* the HOLD signal of the current bar has been executed on an engine that
\* holds a position
WitnessHoldIgnored ==
    /\ pc = "exec"
    /\ pending = <<>>
    /\ strategy = CustomStrategy
    /\ script[step + 1] = <<"HOLD">>
    /\ Symbol \in DOMAIN positions

\* the signals that the step from "bar" hands over: none when
\* generate_signals raises
Emitted == IF pc' = "exec" THEN pending' ELSE <<>>

\* the faster and the slower series of a crossover strategy, from the close
\* prices its calculator holds
FasterSeries ==
    LET close_prices == indicator_calculator.close_prices
    IN IF strategy.kind = "sma_crossover"
       THEN simple_moving_average(close_prices, strategy.parameters.short_period)
       ELSE macd(close_prices, MacdFastPeriod, MacdSlowPeriod,
                 MacdSignalPeriod).macd
SlowerSeries ==
    LET close_prices == indicator_calculator.close_prices
    IN IF strategy.kind = "sma_crossover"
       THEN simple_moving_average(close_prices, strategy.parameters.long_period)
       ELSE macd(close_prices, MacdFastPeriod, MacdSlowPeriod,
                 MacdSignalPeriod).signal

\* C24: crossover rule (SMA crossover on the short/long SMA, MACD crossover
\* on the MACD/signal line).  With a the faster and b the slower series, each
\* aligned at its last element, the strategy emits BUY exactly when
\* prev_a <= prev_b and cur_a > cur_b, SELL exactly when prev_a >= prev_b
\* and cur_a < cur_b, and no signal otherwise; it emits no signal when
\* either series has fewer than 2 points.
CrossoverRule ==
    [][ (pc = "bar" /\ pc' # "bar" /\ step < Len(historical_data)
         /\ strategy.kind \in {"sma_crossover", "macd"})
        => \E a \in {FasterSeries} : \E b \in {SlowerSeries} :
           LET two == Len(a) >= 2 /\ Len(b) >= 2
               up == /\ two
                     /\ FLe(a[Len(a) - 1], b[Len(b) - 1])
                     /\ FLt(Last(b), Last(a))
               down == /\ two
                       /\ FLe(b[Len(b) - 1], a[Len(a) - 1])
                       /\ FLt(Last(a), Last(b))
           IN /\ Len(Emitted) <= 1
              /\ up <=> (Emitted # <<>> /\ Emitted[1].signal_type = "BUY")
              /\ down <=> (Emitted # <<>> /\ Emitted[1].signal_type = "SELL")
              /\ ~two => Emitted = <<>> ]_vars

\* the SMA crossover strategy has emitted a BUY on averages that were equal
\* at the previous step
WitnessCrossoverRule ==
    /\ pc = "exec"
    /\ strategy.kind = "sma_crossover"
    /\ init_window = <<1, 1, 2>>
    /\ pending # <<>>
    /\ pending[1].signal_type = "BUY"

\* the RSI series of the RSI strategy, from the close prices its calculator
\* holds
RsiSeries ==
    relative_strength_index(indicator_calculator.close_prices,
                            strategy.parameters.rsi_period)

\* the distance of r from 50, as a fraction of 50
DistanceFromNeutral(r) ==
    IF FLe(r, FromInt(50)) THEN FDiv(FSub(FromInt(50), r), FromInt(50))
    ELSE FDiv(FSub(r, FromInt(50)), FromInt(50))

\* C25: RSI threshold strategy.  With the latest RSI value r available, the
\* strategy emits BUY exactly when r <= oversold, SELL exactly when
\* r >= overbought (and r > oversold), and no signal otherwise; the emitted
\* confidence equals |50 - r| / 50 and lies in [0, 1].
RsiThresholds ==
    [][ (pc = "bar" /\ pc' # "bar" /\ step < Len(historical_data)
         /\ strategy.kind = "rsi")
        => \E rsi_values \in {RsiSeries} :
             rsi_values # <<>> =>
             LET r == Last(rsi_values)
                 low == FLe(r, FromInt(strategy.parameters.oversold))
                 high == FLe(FromInt(strategy.parameters.overbought), r)
             IN /\ Len(Emitted) <= 1
                /\ low <=> (Emitted # <<>> /\ Emitted[1].signal_type = "BUY")
                /\ (high /\ ~low)
                   <=> (Emitted # <<>> /\ Emitted[1].signal_type = "SELL")
                /\ Emitted # <<>>
                   => /\ Emitted[1].confidence = DistanceFromNeutral(r)
                      /\ FLe(FZero, Emitted[1].confidence)
                      /\ FLe(Emitted[1].confidence, FromInt(1)) ]_vars

\* the RSI strategy has emitted a SELL on an RSI between overbought and 100,
\* with a confidence between 0 and 1
WitnessRsiThresholds ==
    /\ pc = "exec"
    /\ strategy.kind = "rsi"
    /\ pending # <<>>
    /\ pending[1].signal_type = "SELL"
    /\ FLt(FZero, pending[1].confidence)
    /\ FLt(pending[1].confidence, FromInt(1))

\* the votes in halves that reach the 0.6 majority of the 3.5 votes cast
Majority(halves) == 10 * halves >= 6 * 7

\* C26: multi-indicator voting.  Whenever SMA20, RSI, MACD, signal line and
\* both Bollinger bands are available (not None, whatever their numeric
\* value, 0 included), the strategy tallies the RSI, MACD and Bollinger
\* votes at weight 1 and the SMA trend vote at weight 0.5 (3.5 in all) and
\* emits BUY if the buy fraction is >= 0.6, else SELL if the sell fraction
\* is >= 0.6, else no signal, with the winning fraction as confidence; it
\* emits no signal only for lack of a value or of a 0.6 majority.
MultiVoting ==
    [][ (pc = "bar" /\ pc' # "bar" /\ step < Len(historical_data)
         /\ strategy.kind = "multi_indicator")
        => \E sma_20 \in {calculate_sma(indicator_calculator,
                                        MultiSmaPeriod).value} :
           \E rsi \in {calculate_rsi(indicator_calculator,
                                     MultiRsiPeriod).value} :
           \E md \in {calculate_macd(indicator_calculator)} :
           \E bb \in {calculate_bollinger_bands(indicator_calculator)} :
           \E current_price \in
                  {FloatOfDecimal(historical_data[step + 1].close)} :
           IF sma_20 = None \/ rsi = None \/ md.macd = None
              \/ md.signal = None \/ bb.upper = None \/ bb.lower = None
           THEN Emitted = <<>>
           ELSE
           LET rsi_buy == FLe(rsi, FromInt(30))
               rsi_sell == ~rsi_buy /\ FLe(FromInt(70), rsi)
               macd_buy == FLt(md.signal, md.macd)
               bb_buy == FLe(current_price, bb.lower)
               bb_sell == ~bb_buy /\ FLe(bb.upper, current_price)
               sma_buy == FLt(sma_20, current_price)
               buy_halves == (IF rsi_buy THEN 2 ELSE 0)
                             + (IF macd_buy THEN 2 ELSE 0)
                             + (IF bb_buy THEN 2 ELSE 0)
                             + (IF sma_buy THEN 1 ELSE 0)
               sell_halves == (IF rsi_sell THEN 2 ELSE 0)
                              + (IF macd_buy THEN 0 ELSE 2)
                              + (IF bb_sell THEN 2 ELSE 0)
                              + (IF sma_buy THEN 0 ELSE 1)
           IN IF Majority(buy_halves)
              THEN /\ Len(Emitted) = 1
                   /\ Emitted[1].signal_type = "BUY"
                   /\ Emitted[1].confidence = FromRatio(buy_halves, 7)
              ELSE IF Majority(sell_halves)
              THEN /\ Len(Emitted) = 1
                   /\ Emitted[1].signal_type = "SELL"
                   /\ Emitted[1].confidence = FromRatio(sell_halves, 7)
              ELSE Emitted = <<>> ]_vars

\* the number of values of a series that lags its input of n bars by lag
Lagged(n, lag) == IF n - lag > 0 THEN n - lag ELSE 0

\* C27: indicator lag/alignment.  For an input of n bars every indicator
\* returns a series with exactly max(0, n - lag) values, where lag is
\* period - 1 for SMA, EMA and Bollinger, period for RSI and ATR, slow - 1
\* for the MACD line and slow - 1 + signal - 1 for the signal line and the
\* histogram, kPeriod - 1 for %K and kPeriod - 1 + dPeriod - 1 for %D, and
\* 0 for OBV; so an input shorter than the minimum length yields an empty
\* series and the output never has more values than the input has bars.
IndicatorLag ==
    LET n == Len(prices) IN
    /\ called \in {"simple_moving_average", "exponential_moving_average"}
       => Len(values) = Lagged(n, period - 1)
    /\ called = "bollinger_bands"
       => /\ Len(values.upper) = Lagged(n, period - 1)
          /\ Len(values.middle) = Lagged(n, period - 1)
          /\ Len(values.lower) = Lagged(n, period - 1)
    /\ called \in {"relative_strength_index", "average_true_range"}
       => Len(values) = Lagged(n, period)
    /\ called = "macd"
       => /\ Len(values.macd) = Lagged(n, slow_period - 1)
          /\ Len(values.signal)
             = Lagged(n, (slow_period - 1) + (signal_period - 1))
          /\ Len(values.histogram)
             = Lagged(n, (slow_period - 1) + (signal_period - 1))
    /\ called = "stochastic_oscillator"
       => /\ Len(values.k) = Lagged(n, period - 1)
          /\ Len(values.d) = Lagged(n, (period - 1) + (d_period - 1))
    /\ called = "on_balance_volume" => Len(values) = Lagged(n, 0)

\* the relative change from the value a to the value b
RelativeChange(a, b) == FDiv(FSub(b, a), a)

\* the relative changes between consecutive snapshots of a history
ChangesBetweenSnapshots(history) ==
    [i \in 1..(Len(history) - 1) |->
        RelativeChange(ValueAt(history, i), ValueAt(history, i + 1))]

\* the relative change of the first snapshot from the initial capital,
\* followed by the changes between consecutive snapshots
ChangesFromInitialCapital(history) ==
    IF history = <<>> THEN <<>>
    ELSE <<RelativeChange(FloatOfDecimal(InitialCapital),
                          ValueAt(history, 1))>>
         \o ChangesBetweenSnapshots(history)

AllEqual(samples) == \A i, j \in DOMAIN samples : samples[i] = samples[j]

\* C28, as stated: the return samples used for the Sharpe ratio are exactly
\* the relative changes between consecutive history snapshots (N-1 samples
\* for N snapshots), and sharpe_ratio is 0 whenever there are fewer than 2
\* such samples or their standard deviation is 0.
SharpeSamplesBetweenSnapshots ==
    pc = "completed" =>
        \E samples \in {ChangesBetweenSnapshots(portfolio_history)} :
           /\ DailyReturnsLoop(portfolio_history,
                               Len(portfolio_history)).daily_returns = samples
           /\ (Len(samples) < 2 \/ AllEqual(samples))
              => result.sharpe_ratio = FZero

\* C28, amended: the return samples are the relative change of the first
\* snapshot from the initial capital followed by the relative changes
\* between consecutive snapshots (N samples for N snapshots); sharpe_ratio
\* is mean / stdev x sqrt(252) of these samples when there are 2 or more of
\* them and their standard deviation is positive, and 0 otherwise.
SharpeSamples ==
    pc = "completed" =>
        \E samples \in {ChangesFromInitialCapital(portfolio_history)} :
           /\ DailyReturnsLoop(portfolio_history,
                               Len(portfolio_history)).daily_returns = samples
           /\ IF Len(samples) < 2 \/ AllEqual(samples)
              THEN result.sharpe_ratio = FZero
              ELSE /\ result.sharpe_ratio.m # 0
                   /\ result.sharpe_ratio
                      = FMul(FDiv(Mean(samples), Stdev(samples)),
                             FSqrt(FromInt(TradingDays)))

\* a run of two bars has ended with a Sharpe ratio other than 0: the two
\* snapshots give one change between them and two samples
WitnessSharpeSamples ==
    /\ pc = "completed"
    /\ Len(portfolio_history) = 2
    /\ result.sharpe_ratio.m # 0

\* the quantity held of a symbol in a position map
QuantityHeld(pos, sym) == IF sym \in DOMAIN pos THEN pos[sym].quantity ELSE 0

\* C29: execution is all-or-nothing.  After any call of _execute_signal,
\* whether it returns or raises, either cash, the position map and the
\* trade log are all unchanged, or cash has changed, the position has
\* changed by the filled quantity and exactly one Trade for that fill has
\* been appended; cash is never credited or debited without the matching
\* position change and Trade record.
ExecutionAllOrNothing ==
    [][ Executing
        => \/ /\ cash' = cash
              /\ positions' = positions
              /\ trades' = trades
           \/ /\ cash' # cash
              /\ Len(trades') = Len(trades) + 1
              /\ SubSeq(trades', 1, Len(trades)) = trades
              /\ LET fill == Last(trades')
                 IN /\ fill.symbol = Sig.symbol
                    /\ fill.side = Sig.signal_type
                    /\ QuantityHeld(positions', fill.symbol)
                       = QuantityHeld(positions, fill.symbol)
                         + (IF fill.side = "BUY" THEN fill.quantity
                            ELSE 0 - fill.quantity) ]_vars

\* C30: cash is never negative.  Starting from a non-negative initial
\* capital, after any sequence of bars with positive prices and any
\* sequence of BUY/SELL signals, portfolio.cash >= 0 in every reachable
\* state: a BUY is executed only when its cost does not exceed the cash, and
\* a SELL never lowers the cash below zero.
CashNeverNegative == cash >= 0

\* after an executed BUY a further BUY, whose cost exceeds the cash that is
\* left, has been rejected
WitnessCashNeverNegative ==
    /\ trades # <<>>
    /\ cash < InitialCapital
    /\ log # <<>>
    /\ Last(log) = "warning"
====
